---- MODULE Spec2Model ----
(***************************************************************************)
(* A model of the subtrackr recurrence-detection engine (src/ml):          *)
(* merchant normalisation and fuzzy grouping (merchant_resolver.py), the   *)
(* heuristic classifier (recurring.py), the missed-cycle and anomaly       *)
(* flaggers (anomalies.py), the feature table (features.py) and the        *)
(* probabilistic scorer with its safety post-filter (score_subs.py), the   *)
(* weak labels (weak_labels.py), the training run (train_subs_models.py)   *)
(* and the dashboard's choice between the two paths (frontend/app.py).     *)
(*                                                                         *)
(* Text is modelled as a sequence of one-character strings, so that the    *)
(* regular-expression steps of the code act on characters.  The           *)
(* characters of a text are the printable ASCII characters, the 29         *)
(* whitespace characters of Python (WHITESPACE) and the bullet; letters    *)
(* and digits outside ASCII are not among them.  Python's None             *)
(* is the one-element sequence <<"<None>">>, which no text equals.  Dates    *)
(* are day numbers, amounts are integers (whole currency units), and a     *)
(* probability p is the integer 1000 * p (5000 * p in the scorer's table).  *)
(* A candidate row holds its mean amount in cents and its coefficient of   *)
(* variation in thousandths, as round(mean_amt, 2) and round(cv, 3) leave  *)
(* them.                                                                   *)
(***************************************************************************)
EXTENDS Integers, Sequences, FiniteSets, TLC

VARIABLES
    pc,         \* position in the pipeline being run
    tx,         \* the transaction table (a sequence of rows)
    threshold,  \* soft_group's threshold, or the scorer's threshold * 1000
    uniq,       \* soft_group: the distinct keys in first-seen order
    mapping,    \* soft_group: key -> representative
    i,          \* soft_group: index of the outer loop (1-based)
    j,          \* soft_group: index of the inner loop (1-based)
    feat,       \* the feature table of build_feature_table
    subs,       \* the candidate table of detect_recurring_subscriptions
    today,      \* the day flag_missed_cycles runs on
    scorer,     \* the SubscriptionScorer object ([model, threshold, meta_features])
    probs,      \* the model's predict_proba output, one entry per feature row
    X,          \* the aligned feature matrix handed to the model
    out,        \* the table SubscriptionScorer.score returns
    labels,     \* the weak labels, one entry per feature row
    files,      \* the artifacts in the models directory
    anom,       \* the table flag_amount_anomalies returns
    app,        \* the dashboard's run (app.py)
    arg,        \* the argument of a function applied on its own
    res         \* its result

vars == <<pc, tx, threshold, uniq, mapping, i, j, feat, subs, today, scorer, probs, X, out,
          labels, files, anom, app, arg, res>>

(***************************************************************************)
(* Bounds of the model.                                                    *)
(***************************************************************************)
MaxTx == 3

MaxHeurTx == 3

(***************************************************************************)
(* Characters and text.                                                    *)
(***************************************************************************)
None == <<"<None>">>

\* None in a column of names (brand, category, cadence)
NoValue == "<None>"

LowerSeq == <<"a","b","c","d","e","f","g","h","i","j","k","l","m","n","o","p","q","r","s","t","u","v","w","x","y","z">>

UpperSeq == <<"A","B","C","D","E","F","G","H","I","J","K","L","M","N","O","P","Q","R","S","T","U","V","W","X","Y","Z">>

DigitSeq == <<"0","1","2","3","4","5","6","7","8","9">>

DigitSet == {"0","1","2","3","4","5","6","7","8","9"}

RangeOf(s) == {s[k] : k \in DOMAIN s}

\* the 29 characters c with c.isspace(), in the order of their code points.  The
\* tab, the line feed, the form feed, the carriage return and the space are
\* written as they are; the others by a name: "<vt>" is the vertical tab \x0b,
\* "<x1c>" .. "<x1f>" the four separators, "<x85>" the next-line character,
\* "<xa0>" the no-break space, "<u1680>" .. "<u3000>" the spaces of those code
\* points
WHITESPACE ==
    << "\t", "\n", "<vt>", "\f", "\r", "<x1c>", "<x1d>", "<x1e>", "<x1f>", " ",
       "<x85>", "<xa0>", "<u1680>", "<u2000>", "<u2001>", "<u2002>", "<u2003>",
       "<u2004>", "<u2005>", "<u2006>", "<u2007>", "<u2008>", "<u2009>", "<u200a>",
       "<u2028>", "<u2029>", "<u202f>", "<u205f>", "<u3000>" >>

\* ord(c) of the characters of WHITESPACE
WHITESPACE_CODES ==
    << 9, 10, 11, 12, 13, 28, 29, 30, 31, 32,
       133, 160, 5760, 8192, 8193, 8194, 8195,
       8196, 8197, 8198, 8199, 8200, 8201, 8202,
       8232, 8233, 8239, 8287, 12288 >>

\* the whitespace of \s, \S, str.split() and str.strip()
SpaceSet == RangeOf(WHITESPACE)

LowerSet == RangeOf(LowerSeq)

UpperSet == RangeOf(UpperSeq)

IndexIn(s, c) == CHOOSE k \in DOMAIN s : s[k] = c

Min(a, b) == IF a <= b THEN a ELSE b

LeastOf(S) == CHOOSE p \in S : \A q \in S : p <= q

GreatestOf(S) == CHOOSE p \in S : \A q \in S : p >= q

\* the sequence f, enumerated
AsTuple(f) == f \o <<>>

Max(a, b) == IF a >= b THEN a ELSE b

\* str.lower() on one character and on a text
LowerChar(c) == IF c \in UpperSet THEN LowerSeq[IndexIn(UpperSeq, c)] ELSE c

Lower(t) == AsTuple([k \in 1..Len(t) |-> LowerChar(t[k])])

\* whether the literal lit occurs in t starting at position p
HasAt(t, p, lit) ==
    /\ p + Len(lit) - 1 <= Len(t)
    /\ \A k \in 1..Len(lit) : t[p + k - 1] = lit[k]

\* Python's "lit in t" on texts
Contains(t, lit) == \E p \in 1..(Len(t) - Len(lit) + 1) : HasAt(t, p, lit)

\* any(w in t for w in words)
ContainsAny(t, words) == \E w \in words : Contains(t, w)

\* " ".join(seq of texts)
RECURSIVE Join(_)
Join(toks) ==
    IF Len(toks) = 0 THEN <<>>
    ELSE IF Len(toks) = 1 THEN toks[1]
    ELSE toks[1] \o <<" ">> \o Join(Tail(toks))

\* str.split(): the maximal runs of non-whitespace characters, by the places
\* where they start
TokenStarts(t) ==
    {p \in 1..Len(t) : t[p] \notin SpaceSet /\ (p = 1 \/ t[p - 1] \in SpaceSet)}

\* the last place of the run of non-whitespace characters that holds p
TokenEnd(t, p) ==
    CHOOSE e \in p..Len(t) :
        /\ \A k \in p..e : t[k] \notin SpaceSet
        /\ (e = Len(t) \/ t[e + 1] \in SpaceSet)

NthToken(t, starts, n) ==
    LET p == CHOOSE q \in starts : Cardinality({r \in starts : r <= q}) = n
    IN  SubSeq(t, p, TokenEnd(t, p))

SplitAt(t, starts) == AsTuple([n \in 1..Cardinality(starts) |-> NthToken(t, starts, n)])

Split(t) == SplitAt(t, TokenStarts(t))

\* str.strip()
RECURSIVE LStrip(_)
LStrip(t) == IF t # <<>> /\ Head(t) \in SpaceSet THEN LStrip(Tail(t)) ELSE t

RECURSIVE RStrip(_)
RStrip(t) ==
    IF t # <<>> /\ t[Len(t)] \in SpaceSet THEN RStrip(SubSeq(t, 1, Len(t) - 1)) ELSE t

Strip(t) == RStrip(LStrip(t))

(***************************************************************************)
(* merchant_resolver.normalize_merchant                                    *)
(***************************************************************************)
STOPWORDS ==
    { <<"i","n","c">>, <<"l","l","c">>, <<"l","t","d">>, <<"c","o">>, <<"c","o","r","p">>, <<"t","h","e">>, <<"o","n","l","i","n","e">>,
      <<"p","a","y","m","e","n","t">>, <<"p","u","r","c","h","a","s","e">>, <<"a","u","t","o","p","a","y">>, <<"s","u","b","s","c","r","i","p","t","i","o","n">>, <<"r","e","n","e","w","a","l">>,
      <<"s","e","r","v","i","c","e","s">>, <<"s","e","r","v","i","c","e">> }

KeyMaxLen == 80

\* the end of a match of http[s]?://\S+ starting at p, or 0 when there is none
UrlMatchEnd(t, p) ==
    LET q == IF HasAt(t, p, <<"h","t","t","p","s",":","/","/">>) THEN p + 8
             ELSE IF HasAt(t, p, <<"h","t","t","p",":","/","/">>) THEN p + 7
             ELSE 0
    IN  IF q > 0 /\ q <= Len(t) /\ t[q] \notin SpaceSet THEN TokenEnd(t, q) ELSE 0

\* the places at or after p where a match starts
UrlStarts(t, p) == {q \in p..Len(t) : UrlMatchEnd(t, q) > 0}

\* re.sub(r"http[s]?://\S+", " ", t): the leftmost match is replaced, and the search
\* resumes behind it
RECURSIVE StripUrlsFrom(_, _)
StripUrlsFrom(t, p) ==
    IF UrlStarts(t, p) = {} THEN SubSeq(t, p, Len(t))
    ELSE LET q == CHOOSE q \in UrlStarts(t, p) : \A r \in UrlStarts(t, p) : q <= r
         IN  SubSeq(t, p, q - 1) \o <<" ">> \o StripUrlsFrom(t, UrlMatchEnd(t, q) + 1)

StripUrls(t) == StripUrlsFrom(t, 1)

\* re.sub(r"\d+", " ", t): every maximal run of digits becomes one space
DigitRuns(t) ==
    SelectSeq(AsTuple([k \in 1..Len(t) |->
                          IF t[k] \notin DigitSet THEN t[k]
                          ELSE IF k > 1 /\ t[k - 1] \in DigitSet THEN "<cut>"
                          ELSE " "]),
              LAMBDA c : c # "<cut>")

\* re.sub(r"[^a-z\s]", " ", t): every character that is neither a lowercase letter
\* nor whitespace becomes a space
LettersOnly(t) ==
    AsTuple([k \in 1..Len(t) |->
                IF t[k] \in LowerSet \/ t[k] \in SpaceSet THEN t[k] ELSE " "])

\* the two substitutions of lines 14 and 15, in their order
AlphaOnly(t) == LettersOnly(DigitRuns(t))

DropStopwords(toks) == SelectSeq(toks, LAMBDA w : w \notin STOPWORDS)

\* s[:n]
Truncate(s, n) == SubSeq(s, 1, Min(n, Len(s)))

\* (text or "")
OrEmpty(text) == IF text = None THEN <<>> ELSE text

normalize_merchant(text) ==
    Strip(Truncate(Join(DropStopwords(Split(AlphaOnly(StripUrls(Lower(OrEmpty(text))))))),
                   KeyMaxLen))

(***************************************************************************)
(* rapidfuzz.fuzz.token_set_ratio, as merchant_resolver.soft_group calls   *)
(* it (default processor, score_cutoff 0).  A ratio is the pair <<n, d>>   *)
(* standing for the number n / d, with d > 0.                              *)
(***************************************************************************)
RatGeq(a, b) == a[1] * b[2] >= b[1] * a[2]

RatMax(a, b) == IF RatGeq(a, b) THEN a ELSE b

\* code-point order of two characters of a key (lowercase letters and the space)
CharCode(c) == IF c \in LowerSet THEN IndexIn(LowerSeq, c) ELSE 0

\* Python's s < t on texts
RECURSIVE TextLess(_, _)
TextLess(s, t) ==
    IF t = <<>> THEN FALSE
    ELSE IF s = <<>> THEN TRUE
    ELSE IF CharCode(Head(s)) # CharCode(Head(t)) THEN CharCode(Head(s)) < CharCode(Head(t))
    ELSE TextLess(Tail(s), Tail(t))

\* sorted(set of texts)
LeastText(S) == CHOOSE a \in S : \A b \in S \ {a} : TextLess(a, b)

RECURSIVE SortedFrom(_, _)
SortedFrom(S, m) == <<m>> \o (IF S = {m} THEN <<>> ELSE SortedFrom(S \ {m}, LeastText(S \ {m})))

SortedTexts(S) == IF S = {} THEN <<>> ELSE SortedFrom(S, LeastText(S))

\* length of the longest common subsequence of a and b, one table row at a time;
\* a row holds the entries for the prefixes b[1..c], c >= 1 (the entry for c = 0 is 0)
RowAt(row, c) == IF c = 0 THEN 0 ELSE row[c]

RECURSIVE LcsRow(_, _, _, _)
LcsRow(ch, b, prev, cur) ==
    IF Len(cur) >= Len(b) THEN cur
    ELSE LcsRow(ch, b, prev,
                Append(cur, IF ch = b[Len(cur) + 1] THEN RowAt(prev, Len(cur)) + 1
                            ELSE Max(RowAt(prev, Len(cur) + 1), RowAt(cur, Len(cur)))))

RECURSIVE LcsRows(_, _, _, _)
LcsRows(a, b, k, prev) ==
    IF k > Len(a) \/ Len(prev) = 0 THEN RowAt(prev, Len(b))
    ELSE LcsRows(a, b, k + 1, LcsRow(a[k], b, prev, <<>>))

LcsLen(a, b) == LcsRows(a, b, 1, AsTuple([c \in 1..Len(b) |-> 0]))

\* Indel.distance: insertions and deletions only
IndelDistance(a, b) == Len(a) + Len(b) - 2 * LcsLen(a, b)

\* _norm_distance with score_cutoff 0: 100 - 100 * dist / lensum
NormDistance(dist, lensum) ==
    IF lensum = 0 THEN <<100, 1>> ELSE <<100 * (lensum - dist), lensum>>

\* the three ratios of the token sets' intersection and differences, joined
SetRatios(sect_len, sep, ab_joined, ba_joined) ==
    LET sect_ab_len == sect_len + sep + Len(ab_joined)
        sect_ba_len == sect_len + sep + Len(ba_joined)
        result == NormDistance(IndelDistance(ab_joined, ba_joined),
                               sect_ab_len + sect_ba_len)
    IN  IF sect_len = 0 THEN result
        ELSE RatMax(result,
                    RatMax(NormDistance(sep + Len(ab_joined), sect_len + sect_ab_len),
                           NormDistance(sep + Len(ba_joined), sect_len + sect_ba_len)))

SetRatio(sect_len, ab_joined, ba_joined) ==
    SetRatios(sect_len, IF sect_len # 0 THEN 1 ELSE 0, ab_joined, ba_joined)

TokenSetRatio(tokens_a, tokens_b) ==
    IF tokens_a = {} \/ tokens_b = {} THEN <<0, 1>>
    ELSE IF tokens_a \cap tokens_b # {}
            /\ (tokens_a \ tokens_b = {} \/ tokens_b \ tokens_a = {}) THEN <<100, 1>>
    ELSE SetRatio(Len(Join(SortedTexts(tokens_a \cap tokens_b))),
                  Join(SortedTexts(tokens_a \ tokens_b)),
                  Join(SortedTexts(tokens_b \ tokens_a)))

token_set_ratio(s1, s2) ==
    IF s1 = <<>> \/ s2 = <<>> THEN <<0, 1>>
    ELSE TokenSetRatio(RangeOf(Split(s1)), RangeOf(Split(s2)))

\* fuzz.token_set_ratio(u, v) >= threshold
Similar(u, v, th) == RatGeq(token_set_ratio(u, v), <<th, 1>>)

(***************************************************************************)
(* merchant_resolver.soft_group, one loop step per action                  *)
(***************************************************************************)
DEFAULT_THRESHOLD == 88

\* Series.unique(): the distinct values in first-seen order
AppendNew(r, x) == IF x \in RangeOf(r) THEN r ELSE Append(r, x)

RECURSIVE Unique(_)
Unique(s) ==
    IF s = <<>> THEN <<>> ELSE AppendNew(Unique(SubSeq(s, 1, Len(s) - 1)), s[Len(s)])

EmptyMap == [k \in {} |-> k]

Put(map, k, v) == [x \in (DOMAIN map) \cup {k} |-> IF x = k THEN v ELSE map[x]]

\* dict.get(x, x)
GetOrSelf(map, x) == IF x \in DOMAIN map THEN map[x] ELSE x

\* mutant of OuterSkips: the test "u in mapping" left out
OuterSkips_EmptyOnly(u, map) == u = <<>>

\* the "if not u or u in mapping: continue" of the outer loop
OuterSkips(u, map) == u = <<>> \/ u \in DOMAIN map

\* mutants of InnerSkips: the test "v in mapping" left out, the test "not v" left out
InnerSkips_EmptyOnly(v, map) == v = <<>>

InnerSkips_AssignedOnly(v, map) == v \in DOMAIN map

\* the "if not v or v in mapping: continue" of the inner loop
InnerSkips(v, map) == v = <<>> \/ v \in DOMAIN map

\* one pass of the inner loop body for uniq[jj] under representative u
InnerStep(u, v, map, th) ==
    IF InnerSkips(v, map) THEN map
    ELSE IF Similar(u, v, th) THEN Put(map, v, u)
    ELSE map

\* df["merchant_norm"] = df["description"].apply(normalize_merchant)
WithKeys(rows) ==
    AsTuple([k \in 1..Len(rows) |->
                [date |-> rows[k].date, description |-> rows[k].description,
                 amount |-> rows[k].amount,
                 merchant_norm |-> normalize_merchant(rows[k].description)]])

KeyColumn(rows) == AsTuple([k \in 1..Len(rows) |-> rows[k].merchant_norm])

\* df["merchant_norm"].map(lambda x: mapping.get(x, x))
Relabel(rows, map) ==
    AsTuple([k \in 1..Len(rows) |->
                [rows[k] EXCEPT !.merchant_norm = GetOrSelf(map, rows[k].merchant_norm)]])

SoftGroupBegin ==
    /\ pc = "parsed"
    /\ tx' = WithKeys(tx)
    /\ uniq' = Unique(KeyColumn(tx'))
    /\ mapping' = EmptyMap
    /\ i' = 1
    /\ j' = 0
    /\ pc' = "outer"
    /\ UNCHANGED <<threshold, feat, subs, today, scorer, probs, X, out, labels, files, anom, app, arg, res>>

SoftGroupOuter ==
    /\ pc = "outer"
    /\ i <= Len(uniq)
    /\ IF OuterSkips(uniq[i], mapping)
       THEN /\ i' = i + 1
            /\ UNCHANGED <<mapping, j, pc>>
       ELSE /\ mapping' = Put(mapping, uniq[i], uniq[i])
            /\ j' = i + 1
            /\ pc' = "inner"
            /\ UNCHANGED i
    /\ UNCHANGED <<tx, threshold, uniq, feat, subs, today, scorer, probs, X, out, labels, files, anom, app, arg, res>>

SoftGroupInner ==
    /\ pc = "inner"
    /\ IF j <= Len(uniq)
       THEN /\ mapping' = InnerStep(uniq[i], uniq[j], mapping, threshold)
            /\ j' = j + 1
            /\ UNCHANGED <<i, pc>>
       ELSE /\ i' = i + 1
            /\ pc' = "outer"
            /\ UNCHANGED <<mapping, j>>
    /\ UNCHANGED <<tx, threshold, uniq, feat, subs, today, scorer, probs, X, out, labels, files, anom, app, arg, res>>

SoftGroupEnd ==
    /\ pc = "outer"
    /\ i > Len(uniq)
    /\ tx' = Relabel(tx, mapping)
    /\ pc' = "grouped"
    /\ UNCHANGED <<threshold, uniq, mapping, i, j, feat, subs, today, scorer, probs, X, out, labels, files, anom, app, arg, res>>

\* the whole of soft_group's loops in one step, for the callers that run it inside
\* resolve_merchants
RECURSIVE InnerLoop(_, _, _, _, _)
InnerLoop(keys, ii, jj, map, th) ==
    IF jj > Len(keys) THEN map
    ELSE InnerLoop(keys, ii, jj + 1, InnerStep(keys[ii], keys[jj], map, th), th)

RECURSIVE OuterLoop(_, _, _, _)
OuterLoop(keys, ii, map, th) ==
    IF ii > Len(keys) THEN map
    ELSE IF OuterSkips(keys[ii], map) THEN OuterLoop(keys, ii + 1, map, th)
    ELSE OuterLoop(keys, ii + 1,
                   InnerLoop(keys, ii, ii + 1, Put(map, keys[ii], keys[ii]), th), th)

GroupKeyed(df, th) == Relabel(df, OuterLoop(Unique(KeyColumn(df)), 1, EmptyMap, th))

soft_group(rows, th) == GroupKeyed(WithKeys(rows), th)

(***************************************************************************)
(* brands.BRAND_RULES and merchant_resolver.apply_brand_lexicon.  A rule   *)
(* is [name, category, alts]: alts holds the alternatives of the rule's    *)
(* pattern, with every optional group and every group of choices written   *)
(* out.  An alternative \bl1 g2 l2 ... gn ln\b is the sequence of its      *)
(* literals, each with the gap (\s*, \s+, [\s-]* or nothing) that the      *)
(* pattern has before it.  The literals are lowercase and are matched      *)
(* against the lowercased description (re.IGNORECASE).                     *)
(***************************************************************************)
\* what a pattern allows between two literals: the characters it may pass over
\* and the least number of them
Adjacent == [skip |-> {}, least |-> 0]

AnySpace == [skip |-> SpaceSet, least |-> 0]

SomeSpace == [skip |-> SpaceSet, least |-> 1]

AnySpaceOrDash == [skip |-> SpaceSet \cup {"-"}, least |-> 0]

BRAND_RULES ==
    << [name |-> "netflix", category |-> "entertainment",
        alts |-> { << [gap |-> Adjacent, lit |-> <<"n","e","t","f","l","i","x">>] >>,
                  << [gap |-> Adjacent, lit |-> <<"n","e","t","f","l","i","x",".","c","o","m">>] >> }],
       [name |-> "disney plus", category |-> "entertainment",
        alts |-> { << [gap |-> Adjacent, lit |-> <<"d","i","s","n","e","y","+">>] >>,
                  << [gap |-> Adjacent, lit |-> <<"d","i","s","n","e","y">>], [gap |-> AnySpace, lit |-> <<"p","l","u","s">>] >> }],
       [name |-> "max", category |-> "entertainment",
        alts |-> { << [gap |-> Adjacent, lit |-> <<"h","b","o">>], [gap |-> AnySpace, lit |-> <<"m","a","x">>] >>,
                  << [gap |-> Adjacent, lit |-> <<"m","a","x">>] >> }],
       [name |-> "hulu", category |-> "entertainment",
        alts |-> { << [gap |-> Adjacent, lit |-> <<"h","u","l","u">>] >> }],
       [name |-> "prime video", category |-> "entertainment",
        alts |-> { << [gap |-> Adjacent, lit |-> <<"a","m","a","z","o","n">>], [gap |-> AnySpace, lit |-> <<"p","r","i","m","e">>] >>,
                  << [gap |-> Adjacent, lit |-> <<"p","r","i","m","e">>], [gap |-> AnySpace, lit |-> <<"v","i","d","e","o">>] >> }],
       [name |-> "apple tv+", category |-> "entertainment",
        alts |-> { << [gap |-> Adjacent, lit |-> <<"a","p","p","l","e">>], [gap |-> AnySpace, lit |-> <<"t","v","+">>] >>,
                  << [gap |-> Adjacent, lit |-> <<"a","p","p","l","e">>], [gap |-> AnySpace, lit |-> <<"t","v">>], [gap |-> AnySpace, lit |-> <<"+">>] >> }],
       [name |-> "paramount+", category |-> "entertainment",
        alts |-> { << [gap |-> Adjacent, lit |-> <<"p","a","r","a","m","o","u","n","t","+">>] >>,
                  << [gap |-> Adjacent, lit |-> <<"p","a","r","a","m","o","u","n","t">>], [gap |-> AnySpace, lit |-> <<"p","l","u","s">>] >> }],
       [name |-> "peacock", category |-> "entertainment",
        alts |-> { << [gap |-> Adjacent, lit |-> <<"p","e","a","c","o","c","k">>] >> }],
       [name |-> "crunchyroll", category |-> "entertainment",
        alts |-> { << [gap |-> Adjacent, lit |-> <<"c","r","u","n","c","h","y","r","o","l","l">>] >> }],
       [name |-> "espn+", category |-> "entertainment",
        alts |-> { << [gap |-> Adjacent, lit |-> <<"e","s","p","n","+">>] >>,
                  << [gap |-> Adjacent, lit |-> <<"e","s","p","n">>], [gap |-> AnySpace, lit |-> <<"p","l","u","s">>] >> }],
       [name |-> "dazn", category |-> "entertainment",
        alts |-> { << [gap |-> Adjacent, lit |-> <<"d","a","z","n">>] >> }],
       [name |-> "spotify", category |-> "entertainment",
        alts |-> { << [gap |-> Adjacent, lit |-> <<"s","p","o","t","i","f","y">>] >> }],
       [name |-> "apple music", category |-> "entertainment",
        alts |-> { << [gap |-> Adjacent, lit |-> <<"a","p","p","l","e">>], [gap |-> AnySpace, lit |-> <<"m","u","s","i","c">>] >> }],
       [name |-> "youtube premium", category |-> "entertainment",
        alts |-> { << [gap |-> Adjacent, lit |-> <<"y","o","u","t","u","b","e">>], [gap |-> SomeSpace, lit |-> <<"p","r","e","m","i","u","m">>] >>,
                  << [gap |-> Adjacent, lit |-> <<"y","t">>], [gap |-> SomeSpace, lit |-> <<"p","r","e","m","i","u","m">>] >> }],
       [name |-> "youtube music", category |-> "entertainment",
        alts |-> { << [gap |-> Adjacent, lit |-> <<"y","o","u","t","u","b","e">>], [gap |-> SomeSpace, lit |-> <<"m","u","s","i","c">>] >> }],
       [name |-> "tidal", category |-> "entertainment",
        alts |-> { << [gap |-> Adjacent, lit |-> <<"t","i","d","a","l">>] >> }],
       [name |-> "audible", category |-> "entertainment",
        alts |-> { << [gap |-> Adjacent, lit |-> <<"a","u","d","i","b","l","e">>] >> }],
       [name |-> "siriusxm", category |-> "entertainment",
        alts |-> { << [gap |-> Adjacent, lit |-> <<"s","i","r","i","u","s">>], [gap |-> AnySpace, lit |-> <<"x","m">>] >>,
                  << [gap |-> Adjacent, lit |-> <<"s","i","r","i","u","s","x","m">>] >> }],
       [name |-> "nyt", category |-> "news",
        alts |-> { << [gap |-> Adjacent, lit |-> <<"n","e","w">>], [gap |-> AnySpace, lit |-> <<"y","o","r","k">>], [gap |-> AnySpace, lit |-> <<"t","i","m","e","s">>] >>,
                  << [gap |-> Adjacent, lit |-> <<"n","y","t","i","m","e","s">>] >>,
                  << [gap |-> Adjacent, lit |-> <<"n","y","t">>] >> }],
       [name |-> "wsj", category |-> "news",
        alts |-> { << [gap |-> Adjacent, lit |-> <<"w","a","l","l">>], [gap |-> AnySpace, lit |-> <<"s","t","r","e","e","t">>], [gap |-> AnySpace, lit |-> <<"j","o","u","r","n","a","l">>] >>,
                  << [gap |-> Adjacent, lit |-> <<"w","s","j">>] >> }],
       [name |-> "washington post", category |-> "news",
        alts |-> { << [gap |-> Adjacent, lit |-> <<"w","a","s","h","i","n","g","t","o","n">>], [gap |-> AnySpace, lit |-> <<"p","o","s","t">>] >>,
                  << [gap |-> Adjacent, lit |-> <<"w","a","p","o">>] >> }],
       [name |-> "the economist", category |-> "news",
        alts |-> { << [gap |-> Adjacent, lit |-> <<"e","c","o","n","o","m","i","s","t">>] >>,
                  << [gap |-> Adjacent, lit |-> <<"t","h","e">>], [gap |-> AnySpace, lit |-> <<"e","c","o","n","o","m","i","s","t">>] >> }],
       [name |-> "bloomberg", category |-> "news",
        alts |-> { << [gap |-> Adjacent, lit |-> <<"b","l","o","o","m","b","e","r","g">>] >> }],
       [name |-> "financial times", category |-> "news",
        alts |-> { << [gap |-> Adjacent, lit |-> <<"f","i","n","a","n","c","i","a","l">>], [gap |-> AnySpace, lit |-> <<"t","i","m","e","s">>] >>,
                  << [gap |-> Adjacent, lit |-> <<"f","t",".","c","o","m">>] >>,
                  << [gap |-> Adjacent, lit |-> <<"f","t">>] >> }],
       [name |-> "medium", category |-> "news",
        alts |-> { << [gap |-> Adjacent, lit |-> <<"m","e","d","i","u","m">>] >> }],
       [name |-> "playstation plus", category |-> "gaming",
        alts |-> { << [gap |-> Adjacent, lit |-> <<"p","l","a","y","s","t","a","t","i","o","n">>], [gap |-> AnySpace, lit |-> <<"p","l","u","s">>] >>,
                  << [gap |-> Adjacent, lit |-> <<"p","s">>], [gap |-> AnySpace, lit |-> <<"p","l","u","s">>] >> }],
       [name |-> "xbox game pass", category |-> "gaming",
        alts |-> { << [gap |-> Adjacent, lit |-> <<"x","b","o","x">>], [gap |-> AnySpace, lit |-> <<"g","a","m","e">>], [gap |-> AnySpace, lit |-> <<"p","a","s","s">>] >>,
                  << [gap |-> Adjacent, lit |-> <<"g","a","m","e">>], [gap |-> AnySpace, lit |-> <<"p","a","s","s">>] >> }],
       [name |-> "nintendo switch online", category |-> "gaming",
        alts |-> { << [gap |-> Adjacent, lit |-> <<"n","i","n","t","e","n","d","o">>], [gap |-> AnySpace, lit |-> <<"o","n","l","i","n","e">>] >>,
                  << [gap |-> Adjacent, lit |-> <<"n","i","n","t","e","n","d","o">>], [gap |-> AnySpace, lit |-> <<"s","w","i","t","c","h">>], [gap |-> AnySpace, lit |-> <<"o","n","l","i","n","e">>] >> }],
       [name |-> "twitch turbo", category |-> "gaming",
        alts |-> { << [gap |-> Adjacent, lit |-> <<"t","w","i","t","c","h">>], [gap |-> AnySpace, lit |-> <<"t","u","r","b","o">>] >> }],
       [name |-> "adobe creative cloud", category |-> "productivity",
        alts |-> { << [gap |-> Adjacent, lit |-> <<"a","d","o","b","e">>], [gap |-> AnySpace, lit |-> <<"c","r","e","a","t","i","v","e">>], [gap |-> AnySpace, lit |-> <<"c","l","o","u","d">>] >>,
                  << [gap |-> Adjacent, lit |-> <<"a","d","o","b","e">>], [gap |-> AnySpaceOrDash, lit |-> <<"c","c">>] >> }],
       [name |-> "adobe photoshop", category |-> "productivity",
        alts |-> { << [gap |-> Adjacent, lit |-> <<"p","h","o","t","o","s","h","o","p">>] >> }],
       [name |-> "adobe illustrator", category |-> "productivity",
        alts |-> { << [gap |-> Adjacent, lit |-> <<"i","l","l","u","s","t","r","a","t","o","r">>] >> }],
       [name |-> "adobe acrobat", category |-> "productivity",
        alts |-> { << [gap |-> Adjacent, lit |-> <<"a","c","r","o","b","a","t">>] >> }],
       [name |-> "microsoft 365", category |-> "productivity",
        alts |-> { << [gap |-> Adjacent, lit |-> <<"m","i","c","r","o","s","o","f","t">>], [gap |-> AnySpace, lit |-> <<"3","6","5">>] >>,
                  << [gap |-> Adjacent, lit |-> <<"o","f","f","i","c","e">>], [gap |-> AnySpace, lit |-> <<"3","6","5">>] >>,
                  << [gap |-> Adjacent, lit |-> <<"o","3","6","5">>] >> }],
       [name |-> "notion", category |-> "productivity",
        alts |-> { << [gap |-> Adjacent, lit |-> <<"n","o","t","i","o","n">>] >> }],
       [name |-> "slack", category |-> "productivity",
        alts |-> { << [gap |-> Adjacent, lit |-> <<"s","l","a","c","k">>] >> }],
       [name |-> "zoom", category |-> "productivity",
        alts |-> { << [gap |-> Adjacent, lit |-> <<"z","o","o","m">>] >> }],
       [name |-> "canva", category |-> "productivity",
        alts |-> { << [gap |-> Adjacent, lit |-> <<"c","a","n","v","a">>] >> }],
       [name |-> "figma", category |-> "productivity",
        alts |-> { << [gap |-> Adjacent, lit |-> <<"f","i","g","m","a">>] >> }],
       [name |-> "asana", category |-> "productivity",
        alts |-> { << [gap |-> Adjacent, lit |-> <<"a","s","a","n","a">>] >> }],
       [name |-> "monday.com", category |-> "productivity",
        alts |-> { << [gap |-> Adjacent, lit |-> <<"m","o","n","d","a","y">>] >>,
                  << [gap |-> Adjacent, lit |-> <<"m","o","n","d","a","y",".","c","o","m">>] >> }],
       [name |-> "evernote", category |-> "productivity",
        alts |-> { << [gap |-> Adjacent, lit |-> <<"e","v","e","r","n","o","t","e">>] >> }],
       [name |-> "grammarly", category |-> "productivity",
        alts |-> { << [gap |-> Adjacent, lit |-> <<"g","r","a","m","m","a","r","l","y">>] >> }],
       [name |-> "dropbox", category |-> "productivity",
        alts |-> { << [gap |-> Adjacent, lit |-> <<"d","r","o","p","b","o","x">>] >> }],
       [name |-> "box", category |-> "productivity",
        alts |-> { << [gap |-> Adjacent, lit |-> <<"b","o","x">>] >>,
                  << [gap |-> Adjacent, lit |-> <<"b","o","x",".","c","o","m">>] >> }],
       [name |-> "one drive", category |-> "productivity",
        alts |-> { << [gap |-> Adjacent, lit |-> <<"o","n","e">>], [gap |-> AnySpace, lit |-> <<"d","r","i","v","e">>] >>,
                  << [gap |-> Adjacent, lit |-> <<"o","n","e","d","r","i","v","e">>] >> }],
       [name |-> "github", category |-> "developer",
        alts |-> { << [gap |-> Adjacent, lit |-> <<"g","i","t","h","u","b">>] >> }],
       [name |-> "gitlab", category |-> "developer",
        alts |-> { << [gap |-> Adjacent, lit |-> <<"g","i","t","l","a","b">>] >> }],
       [name |-> "bitbucket", category |-> "developer",
        alts |-> { << [gap |-> Adjacent, lit |-> <<"b","i","t","b","u","c","k","e","t">>] >> }],
       [name |-> "digitalocean", category |-> "developer",
        alts |-> { << [gap |-> Adjacent, lit |-> <<"d","i","g","i","t","a","l">>], [gap |-> AnySpace, lit |-> <<"o","c","e","a","n">>] >>,
                  << [gap |-> Adjacent, lit |-> <<"d","i","g","i","t","a","l","o","c","e","a","n">>] >> }],
       [name |-> "linode", category |-> "developer",
        alts |-> { << [gap |-> Adjacent, lit |-> <<"l","i","n","o","d","e">>] >> }],
       [name |-> "heroku", category |-> "developer",
        alts |-> { << [gap |-> Adjacent, lit |-> <<"h","e","r","o","k","u">>] >> }],
       [name |-> "vercel", category |-> "developer",
        alts |-> { << [gap |-> Adjacent, lit |-> <<"v","e","r","c","e","l">>] >> }],
       [name |-> "netlify", category |-> "developer",
        alts |-> { << [gap |-> Adjacent, lit |-> <<"n","e","t","l","i","f","y">>] >> }],
       [name |-> "render", category |-> "developer",
        alts |-> { << [gap |-> Adjacent, lit |-> <<"r","e","n","d","e","r">>] >> }],
       [name |-> "cloudflare", category |-> "developer",
        alts |-> { << [gap |-> Adjacent, lit |-> <<"c","l","o","u","d","f","l","a","r","e">>] >> }],
       [name |-> "aws", category |-> "developer",
        alts |-> { << [gap |-> Adjacent, lit |-> <<"a","m","a","z","o","n">>], [gap |-> AnySpace, lit |-> <<"w","e","b">>], [gap |-> AnySpace, lit |-> <<"s","e","r","v","i","c","e","s">>] >>,
                  << [gap |-> Adjacent, lit |-> <<"a","w","s">>] >> }],
       [name |-> "gcp", category |-> "developer",
        alts |-> { << [gap |-> Adjacent, lit |-> <<"g","o","o","g","l","e">>], [gap |-> AnySpace, lit |-> <<"c","l","o","u","d">>] >>,
                  << [gap |-> Adjacent, lit |-> <<"g","c","p">>] >> }],
       [name |-> "azure", category |-> "developer",
        alts |-> { << [gap |-> Adjacent, lit |-> <<"a","z","u","r","e">>] >> }],
       [name |-> "google one", category |-> "cloud_storage",
        alts |-> { << [gap |-> Adjacent, lit |-> <<"g","o","o","g","l","e">>], [gap |-> AnySpace, lit |-> <<"o","n","e">>] >>,
                  << [gap |-> Adjacent, lit |-> <<"g","o","o","g","l","e">>], [gap |-> AnySpace, lit |-> <<"s","t","o","r","a","g","e">>] >> }],
       [name |-> "apple icloud", category |-> "cloud_storage",
        alts |-> { << [gap |-> Adjacent, lit |-> <<"a","p","p","l","e">>], [gap |-> AnySpace, lit |-> <<"i">>], [gap |-> AnySpace, lit |-> <<"c","l","o","u","d">>] >>,
                  << [gap |-> Adjacent, lit |-> <<"i">>], [gap |-> AnySpace, lit |-> <<"c","l","o","u","d">>] >>,
                  << [gap |-> Adjacent, lit |-> <<"i","c","l","o","u","d">>] >> }],
       [name |-> "backblaze", category |-> "cloud_storage",
        alts |-> { << [gap |-> Adjacent, lit |-> <<"b","a","c","k","b","l","a","z","e">>] >> }],
       [name |-> "idrive", category |-> "cloud_storage",
        alts |-> { << [gap |-> Adjacent, lit |-> <<"i","d","r","i","v","e">>] >> }],
       [name |-> "mega", category |-> "cloud_storage",
        alts |-> { << [gap |-> Adjacent, lit |-> <<"m","e","g","a">>] >>,
                  << [gap |-> Adjacent, lit |-> <<"m","e","g","a",".","n","z">>] >> }],
       [name |-> "1password", category |-> "security",
        alts |-> { << [gap |-> Adjacent, lit |-> <<"1">>], [gap |-> AnySpace, lit |-> <<"p","a","s","s","w","o","r","d">>] >>,
                  << [gap |-> Adjacent, lit |-> <<"1","p","a","s","s","w","o","r","d">>] >> }],
       [name |-> "lastpass", category |-> "security",
        alts |-> { << [gap |-> Adjacent, lit |-> <<"l","a","s","t">>], [gap |-> AnySpace, lit |-> <<"p","a","s","s">>] >>,
                  << [gap |-> Adjacent, lit |-> <<"l","a","s","t","p","a","s","s">>] >> }],
       [name |-> "dashlane", category |-> "security",
        alts |-> { << [gap |-> Adjacent, lit |-> <<"d","a","s","h","l","a","n","e">>] >> }],
       [name |-> "malwarebytes", category |-> "security",
        alts |-> { << [gap |-> Adjacent, lit |-> <<"m","a","l","w","a","r","e","b","y","t","e","s">>] >> }],
       [name |-> "nordvpn", category |-> "security",
        alts |-> { << [gap |-> Adjacent, lit |-> <<"n","o","r","d">>], [gap |-> AnySpace, lit |-> <<"v","p","n">>] >>,
                  << [gap |-> Adjacent, lit |-> <<"n","o","r","d","v","p","n">>] >> }],
       [name |-> "expressvpn", category |-> "security",
        alts |-> { << [gap |-> Adjacent, lit |-> <<"e","x","p","r","e","s","s">>], [gap |-> AnySpace, lit |-> <<"v","p","n">>] >>,
                  << [gap |-> Adjacent, lit |-> <<"e","x","p","r","e","s","s","v","p","n">>] >> }],
       [name |-> "surfshark", category |-> "security",
        alts |-> { << [gap |-> Adjacent, lit |-> <<"s","u","r","f","s","h","a","r","k">>] >> }],
       [name |-> "proton vpn", category |-> "security",
        alts |-> { << [gap |-> Adjacent, lit |-> <<"p","r","o","t","o","n">>], [gap |-> AnySpace, lit |-> <<"v","p","n">>] >> }],
       [name |-> "coursera", category |-> "education",
        alts |-> { << [gap |-> Adjacent, lit |-> <<"c","o","u","r","s","e","r","a">>] >> }],
       [name |-> "udemy", category |-> "education",
        alts |-> { << [gap |-> Adjacent, lit |-> <<"u","d","e","m","y">>] >> }],
       [name |-> "skillshare", category |-> "education",
        alts |-> { << [gap |-> Adjacent, lit |-> <<"s","k","i","l","l">>], [gap |-> AnySpace, lit |-> <<"s","h","a","r","e">>] >>,
                  << [gap |-> Adjacent, lit |-> <<"s","k","i","l","l","s","h","a","r","e">>] >> }],
       [name |-> "linkedin learning", category |-> "education",
        alts |-> { << [gap |-> Adjacent, lit |-> <<"l","i","n","k","e","d">>], [gap |-> AnySpace, lit |-> <<"l","e","a","r","n","i","n","g">>] >>,
                  << [gap |-> Adjacent, lit |-> <<"l","i","n","k","e","d","i","n">>], [gap |-> AnySpace, lit |-> <<"l","e","a","r","n","i","n","g">>] >> }],
       [name |-> "duolingo plus", category |-> "education",
        alts |-> { << [gap |-> Adjacent, lit |-> <<"d","u","o","l","i","n","g","o">>], [gap |-> AnySpace, lit |-> <<"p","l","u","s">>] >> }],
       [name |-> "babbel", category |-> "education",
        alts |-> { << [gap |-> Adjacent, lit |-> <<"b","a","b","b","e","l">>] >> }],
       [name |-> "brilliant", category |-> "education",
        alts |-> { << [gap |-> Adjacent, lit |-> <<"b","r","i","l","l","i","a","n","t">>] >> }],
       [name |-> "chegg", category |-> "education",
        alts |-> { << [gap |-> Adjacent, lit |-> <<"c","h","e","g","g">>] >> }],
       [name |-> "peloton", category |-> "fitness",
        alts |-> { << [gap |-> Adjacent, lit |-> <<"p","e","l","o","t","o","n">>] >> }],
       [name |-> "fitbit premium", category |-> "fitness",
        alts |-> { << [gap |-> Adjacent, lit |-> <<"f","i","t","b","i","t">>], [gap |-> AnySpace, lit |-> <<"p","r","e","m","i","u","m">>] >> }],
       [name |-> "strava", category |-> "fitness",
        alts |-> { << [gap |-> Adjacent, lit |-> <<"s","t","r","a","v","a">>] >> }],
       [name |-> "myfitnesspal", category |-> "fitness",
        alts |-> { << [gap |-> Adjacent, lit |-> <<"m","y">>], [gap |-> AnySpace, lit |-> <<"f","i","t","n","e","s","s">>], [gap |-> AnySpace, lit |-> <<"p","a","l">>] >>,
                  << [gap |-> Adjacent, lit |-> <<"m","y","f","i","t","n","e","s","s","p","a","l">>] >> }],
       [name |-> "headspace", category |-> "wellness",
        alts |-> { << [gap |-> Adjacent, lit |-> <<"h","e","a","d","s","p","a","c","e">>] >> }],
       [name |-> "calm", category |-> "wellness",
        alts |-> { << [gap |-> Adjacent, lit |-> <<"c","a","l","m">>] >> }],
       [name |-> "ynab", category |-> "finance",
        alts |-> { << [gap |-> Adjacent, lit |-> <<"y","o","u">>], [gap |-> AnySpace, lit |-> <<"n","e","e","d">>], [gap |-> AnySpace, lit |-> <<"a">>], [gap |-> AnySpace, lit |-> <<"b","u","d","g","e","t">>] >>,
                  << [gap |-> Adjacent, lit |-> <<"y","n","a","b">>] >> }],
       [name |-> "quickbooks", category |-> "finance",
        alts |-> { << [gap |-> Adjacent, lit |-> <<"q","u","i","c","k">>], [gap |-> AnySpace, lit |-> <<"b","o","o","k","s">>] >>,
                  << [gap |-> Adjacent, lit |-> <<"q","u","i","c","k","b","o","o","k","s">>] >> }],
       [name |-> "xero", category |-> "finance",
        alts |-> { << [gap |-> Adjacent, lit |-> <<"x","e","r","o">>] >> }],
       [name |-> "mint", category |-> "finance",
        alts |-> { << [gap |-> Adjacent, lit |-> <<"m","i","n","t">>] >> }],
       [name |-> "rocket money", category |-> "finance",
        alts |-> { << [gap |-> Adjacent, lit |-> <<"r","o","c","k","e","t">>], [gap |-> AnySpace, lit |-> <<"m","o","n","e","y">>] >>,
                  << [gap |-> Adjacent, lit |-> <<"t","r","u","e","b","i","l","l">>] >> }],
       [name |-> "amazon prime", category |-> "shopping",
        alts |-> { << [gap |-> Adjacent, lit |-> <<"a","m","a","z","o","n">>], [gap |-> AnySpace, lit |-> <<"p","r","i","m","e">>] >>,
                  << [gap |-> Adjacent, lit |-> <<"p","r","i","m","e">>], [gap |-> AnySpace, lit |-> <<"m","e","m","b","e","r","s","h","i","p">>] >> }],
       [name |-> "walmart+", category |-> "shopping",
        alts |-> { << [gap |-> Adjacent, lit |-> <<"w","a","l","m","a","r","t","+">>] >>,
                  << [gap |-> Adjacent, lit |-> <<"w","a","l","m","a","r","t">>], [gap |-> AnySpace, lit |-> <<"p","l","u","s">>] >> }],
       [name |-> "costco membership", category |-> "shopping",
        alts |-> { << [gap |-> Adjacent, lit |-> <<"c","o","s","t","c","o">>] >>,
                  << [gap |-> Adjacent, lit |-> <<"c","o","s","t","c","o">>], [gap |-> AnySpace, lit |-> <<"m","e","m","b","e","r","s","h","i","p">>] >> }],
       [name |-> "sam's club", category |-> "shopping",
        alts |-> { << [gap |-> Adjacent, lit |-> <<"s","a","m","s">>], [gap |-> AnySpace, lit |-> <<"c","l","u","b">>] >>,
                  << [gap |-> Adjacent, lit |-> <<"s","a","m","'","s">>], [gap |-> AnySpace, lit |-> <<"c","l","u","b">>] >> }],
       [name |-> "uber one", category |-> "mobility",
        alts |-> { << [gap |-> Adjacent, lit |-> <<"u","b","e","r">>], [gap |-> AnySpace, lit |-> <<"o","n","e">>] >> }],
       [name |-> "lyft pink", category |-> "mobility",
        alts |-> { << [gap |-> Adjacent, lit |-> <<"l","y","f","t">>], [gap |-> AnySpace, lit |-> <<"p","i","n","k">>] >> }],
       [name |-> "google workspace", category |-> "communication",
        alts |-> { << [gap |-> Adjacent, lit |-> <<"g","o","o","g","l","e">>], [gap |-> AnySpace, lit |-> <<"w","o","r","k","s","p","a","c","e">>] >>,
                  << [gap |-> Adjacent, lit |-> <<"g">>], [gap |-> AnySpace, lit |-> <<"s","u","i","t","e">>] >> }],
       [name |-> "proton mail", category |-> "communication",
        alts |-> { << [gap |-> Adjacent, lit |-> <<"p","r","o","t","o","n">>], [gap |-> AnySpace, lit |-> <<"m","a","i","l">>] >> }],
       [name |-> "fastmail", category |-> "communication",
        alts |-> { << [gap |-> Adjacent, lit |-> <<"f","a","s","t","m","a","i","l">>] >> }],
       [name |-> "zoom pro", category |-> "communication",
        alts |-> { << [gap |-> Adjacent, lit |-> <<"z","o","o","m">>], [gap |-> AnySpace, lit |-> <<"p","r","o">>] >> }],
       [name |-> "chatgpt plus", category |-> "ai",
        alts |-> { << [gap |-> Adjacent, lit |-> <<"c","h","a","t","g","p","t">>], [gap |-> AnySpace, lit |-> <<"p","l","u","s">>] >>,
                  << [gap |-> Adjacent, lit |-> <<"o","p","e","n","a","i">>] >> }],
       [name |-> "claude pro", category |-> "ai",
        alts |-> { << [gap |-> Adjacent, lit |-> <<"c","l","a","u","d","e">>], [gap |-> AnySpace, lit |-> <<"p","r","o">>] >>,
                  << [gap |-> Adjacent, lit |-> <<"a","n","t","h","r","o","p","i","c">>] >> }],
       [name |-> "midjourney", category |-> "ai",
        alts |-> { << [gap |-> Adjacent, lit |-> <<"m","i","d">>], [gap |-> AnySpace, lit |-> <<"j","o","u","r","n","e","y">>] >>,
                  << [gap |-> Adjacent, lit |-> <<"m","i","d","j","o","u","r","n","e","y">>] >> }],
       [name |-> "github copilot", category |-> "ai",
        alts |-> { << [gap |-> Adjacent, lit |-> <<"g","i","t","h","u","b">>], [gap |-> AnySpace, lit |-> <<"c","o","p","i","l","o","t">>] >> }],
       [name |-> "jasper ai", category |-> "ai",
        alts |-> { << [gap |-> Adjacent, lit |-> <<"j","a","s","p","e","r">>] >>,
                  << [gap |-> Adjacent, lit |-> <<"j","a","s","p","e","r">>], [gap |-> AnySpace, lit |-> <<"a","i">>] >> }],
       [name |-> "microsoft copilot", category |-> "ai",
        alts |-> { << [gap |-> Adjacent, lit |-> <<"m","i","c","r","o","s","o","f","t">>], [gap |-> AnySpace, lit |-> <<"c","o","p","i","l","o","t">>] >> }] >>

\* \w of the regular expressions
IsWordChar(c) == c \in LowerSet \/ c \in UpperSet \/ c \in DigitSet \/ c = "_"

\* \b between positions p - 1 and p of t
WordBoundary(t, p) ==
    LET before == p > 1 /\ p - 1 <= Len(t) /\ IsWordChar(t[p - 1])
        after  == p >= 1 /\ p <= Len(t) /\ IsWordChar(t[p])
    IN  before # after

\* the first position from p on that holds no character of skip: a gap takes
\* all of them, since no literal starts with one
RECURSIVE GapEnd(_, _, _)
GapEnd(t, p, skip) ==
    IF p <= Len(t) /\ t[p] \in skip THEN GapEnd(t, p + 1, skip) ELSE p

\* the position after the parts matched from p on, or 0 when they do not match
RECURSIVE PartsEnd(_, _, _)
PartsEnd(t, p, parts) ==
    IF parts = <<>> THEN p
    ELSE LET q == GapEnd(t, p, Head(parts).gap.skip)
         IN  IF q - p >= Head(parts).gap.least /\ HasAt(t, q, Head(parts).lit)
             THEN PartsEnd(t, q + Len(Head(parts).lit), Tail(parts))
             ELSE 0

EndsAtBoundary(t, e) == e > 0 /\ WordBoundary(t, e)

\* the places where a word starts.  Every alternative starts with a letter or a
\* digit, so the \b before it holds at p exactly when a word starts at p
WordStarts(t) ==
    {p \in 1..Len(t) : IsWordChar(t[p]) /\ (p = 1 \/ ~IsWordChar(t[p - 1]))}

\* search of one alternative: a match from some word start on, up to a boundary
AltMatchesFrom(t, starts, parts) ==
    \E p \in starts : EndsAtBoundary(t, PartsEnd(t, p, parts))

RuleMatchesFrom(rule, low, starts) ==
    \E parts \in rule.alts : AltMatchesFrom(low, starts, parts)

\* rule.pattern.search(desc), re.IGNORECASE, on the lowercased description
RuleMatches(rule, low) == RuleMatchesFrom(rule, low, WordStarts(low))

\* str(description): None prints as "None"
AsStr(text) == IF text = None THEN <<"N","o","n","e">> ELSE text

\* a if the search has ended with a, else what is found further on
FoundOr(a, b) == IF a # 0 THEN a ELSE b

\* the characters an alternative can start with
StartChars == LowerSeq \o DigitSeq

RuleNumbers == AsTuple([r \in 1..Len(BRAND_RULES) |-> r])

StartsWith(r, c) == \E parts \in BRAND_RULES[r].alts : Head(parts).lit[1] = c

\* for each start character, the rules that have an alternative starting with
\* it, in the order of BRAND_RULES
RULES_STARTING ==
    AsTuple([k \in 1..Len(StartChars) |->
                SelectSeq(RuleNumbers, LAMBDA r : StartsWith(r, StartChars[k]))])

\* a search can succeed only from a word start that holds the first character of
\* one of the rule's alternatives: the rules that can match low at all
RulesToTry(low, starts) ==
    UNION {RangeOf(RULES_STARTING[IndexIn(StartChars, low[p])]) :
              p \in {q \in starts : low[q] # "_"}}

\* the loop over BRAND_RULES with its break, from rule r on: the rules are gone
\* through in their order and the first that matches ends the loop; 0 when none
\* of them matches
RECURSIVE FirstRuleFrom(_, _, _, _)
FirstRuleFrom(low, starts, rules, r) ==
    IF RuleMatchesFrom(BRAND_RULES[r], low, starts) THEN r
    ELSE IF rules = {r} THEN 0
    ELSE FirstRuleFrom(low, starts, rules \ {r}, LeastOf(rules \ {r}))

FirstRuleAmong(low, starts, rules) ==
    IF rules = {} THEN 0 ELSE FirstRuleFrom(low, starts, rules, LeastOf(rules))

FirstRuleOf(low, starts) == FirstRuleAmong(low, starts, RulesToTry(low, starts))

\* without the break: the last matching rule overrides the earlier ones
RECURSIVE LastRuleFrom(_, _, _, _)
LastRuleFrom(low, starts, rules, r) ==
    IF RuleMatchesFrom(BRAND_RULES[r], low, starts) THEN r
    ELSE IF rules = {r} THEN 0
    ELSE LastRuleFrom(low, starts, rules \ {r}, GreatestOf(rules \ {r}))

LastRuleAmong(low, starts, rules) ==
    IF rules = {} THEN 0 ELSE LastRuleFrom(low, starts, rules, GreatestOf(rules))

FirstRule_LastWins(desc) ==
    LastRuleAmong(Lower(desc), WordStarts(Lower(desc)),
                  RulesToTry(Lower(desc), WordStarts(Lower(desc))))

FirstRule(desc) == FirstRuleOf(Lower(desc), WordStarts(Lower(desc)))

Branded(row, r) ==
    [date |-> row.date, description |-> row.description,
     amount |-> row.amount, merchant_norm |-> row.merchant_norm,
     brand |-> IF r = 0 THEN NoValue ELSE BRAND_RULES[r].name,
     category |-> IF r = 0 THEN NoValue ELSE BRAND_RULES[r].category,
     brand_hit |-> IF r = 0 THEN 0 ELSE 1]

apply_brand_lexicon(rows) ==
    AsTuple([k \in 1..Len(rows) |-> Branded(rows[k], FirstRule(AsStr(rows[k].description)))])

resolve_merchants(rows) == apply_brand_lexicon(soft_group(rows, DEFAULT_THRESHOLD))

(***************************************************************************)
(* DataFrame.groupby("merchant_norm"): the groups in ascending key order,  *)
(* rows with a missing key dropped, each group the indices of its rows in  *)
(* table order.                                                            *)
(***************************************************************************)
\* mutant of GroupKeys: the empty key treated as a missing one
GroupKeys_NoEmpty(rows) ==
    SortedTexts({rows[k].merchant_norm : k \in 1..Len(rows)} \ {None, <<>>})

GroupKeys(rows) ==
    SortedTexts({rows[k].merchant_norm : k \in 1..Len(rows)} \ {None})

Members(rows, key) ==
    SelectSeq(AsTuple([k \in 1..Len(rows) |-> k]), LAMBDA k : rows[k].merchant_norm = key)

GroupsOf(rows, keys) ==
    AsTuple([g \in 1..Len(keys) |-> [key |-> keys[g], members |-> Members(rows, keys[g])]])

groupby(rows) == GroupsOf(rows, GroupKeys(rows))

\* the whole batch in place of the rows of the group
GroupRows_WholeBatch(rows, grp) == rows

\* the rows of one group
GroupRows(rows, grp) == AsTuple([k \in 1..Len(grp.members) |-> rows[grp.members[k]]])

(***************************************************************************)
(* Statistics of one group.  A fraction is the pair <<n, d>>, d > 0.       *)
(***************************************************************************)
Abs(x) == IF x < 0 THEN -x ELSE x

RECURSIVE SumSeq(_)
SumSeq(s) == IF s = <<>> THEN 0 ELSE Head(s) + SumSeq(Tail(s))

\* insert x into the ascending sequence s, after the entries equal to it
RECURSIVE InsertAsc(_, _)
InsertAsc(s, x) ==
    IF s = <<>> THEN <<x>>
    ELSE IF x < Head(s) THEN <<x>> \o s
    ELSE <<Head(s)>> \o InsertAsc(Tail(s), x)

RECURSIVE SortAsc(_)
SortAsc(s) == IF s = <<>> THEN <<>> ELSE InsertAsc(SortAsc(SubSeq(s, 1, Len(s) - 1)), s[Len(s)])

\* sort_values("date") of a group's rows (rows of one day keep their order)
RECURSIVE InsertByDate(_, _)
InsertByDate(s, r) ==
    IF s = <<>> THEN <<r>>
    ELSE IF r.date < Head(s).date THEN <<r>> \o s
    ELSE <<Head(s)>> \o InsertByDate(Tail(s), r)

RECURSIVE SortByDate(_)
SortByDate(s) ==
    IF s = <<>> THEN <<>> ELSE InsertByDate(SortByDate(SubSeq(s, 1, Len(s) - 1)), s[Len(s)])

\* dates.diff().dt.days.dropna() of ascending dates
GapsOf(dates) == AsTuple([k \in 1..(Len(dates) - 1) |-> dates[k + 1] - dates[k]])

\* np.median(gaps), 0.0 when there is no gap
MedianOfSorted(s, n) ==
    IF n = 0 THEN <<0, 1>>
    ELSE IF n % 2 = 1 THEN <<s[(n + 1) \div 2], 1>>
    ELSE <<s[n \div 2] + s[n \div 2 + 1], 2>>

MedianGap(gaps) == MedianOfSorted(SortAsc(gaps), Len(gaps))

\* n * sum(x^2) - sum(x)^2: n^2 times the population variance of s
VarTimesN2(s) ==
    Len(s) * SumSeq(AsTuple([k \in 1..Len(s) |-> s[k] * s[k]])) - SumSeq(s) * SumSeq(s)

AbsAmounts(g) == AsTuple([k \in 1..Len(g) |-> Abs(g[k].amount)])

\* mean of the absolute amounts, 0.0 for no rows
MeanAbs(g) == IF Len(g) = 0 THEN <<0, 1>> ELSE <<SumSeq(AbsAmounts(g)), Len(g)>>

\* the SQUARE of the coefficient of variation std(ddof=0) / (mean + 1e-9) of the
\* absolute amounts, as a fraction, and of the sentinel 999.0 when the mean is 0.
\* The 1e-9 in the denominator is below the resolution of any comparison made with
\* integer amounts and is left out.
CV_SENTINEL == 999

\* without the sentinel: a zero mean taken for a zero coefficient of variation
CvSquaredOf_NoSentinel(a, total) ==
    IF total > 0 THEN <<VarTimesN2(a), total * total>> ELSE <<0, 1>>

CvSquaredOf(a, total) ==
    IF total > 0 THEN <<VarTimesN2(a), total * total>>
    ELSE <<CV_SENTINEL * CV_SENTINEL, 1>>

CvSquared(g) == CvSquaredOf(AbsAmounts(g), SumSeq(AbsAmounts(g)))

\* cv <= bound for a bound b = <<n, d>>, on the squares
CvAtMost(cv2, b) == cv2[1] * b[2] * b[2] <= b[1] * b[1] * cv2[2]

\* lo <= mean <= hi for integers lo, hi
MeanBetween(m, lo, hi) == lo * m[2] <= m[1] /\ m[1] <= hi * m[2]

(***************************************************************************)
(* recurring._cadence_label / features._cadence_label: the first cadence   *)
(* whose window holds the median gap.                                      *)
(***************************************************************************)
recurring_CADENCES ==
    << <<"weekly", 7, 1>>, <<"biweekly", 14, 2>>, <<"monthly", 30, 3>>,
       <<"quarterly", 90, 7>>, <<"yearly", 365, 10>> >>

features_CADENCES ==
    << <<"weekly", 7, 1>>, <<"biweekly", 14, 2>>, <<"monthly", 30, 3>>,
       <<"quarterly", 90, 7>>, <<"yearly", 365, 15>> >>

\* abs(med_gap - base) <= wiggle or (label == "monthly" and 28 <= med_gap <= 31)
InWindow(c, med) ==
    \/ Abs(med[1] - c[2] * med[2]) <= c[3] * med[2]
    \/ (c[1] = "monthly" /\ 28 * med[2] <= med[1] /\ med[1] <= 31 * med[2])

\* the loop over CADENCES with its return
RECURSIVE CadenceFrom(_, _, _)
CadenceFrom(cadences, med, k) ==
    IF k > Len(cadences) THEN NoValue
    ELSE IF InWindow(cadences[k], med) THEN cadences[k][1]
    ELSE CadenceFrom(cadences, med, k + 1)

CadenceIn(cadences, med) == CadenceFrom(cadences, med, 1)

recurring_cadence_label(med) == CadenceIn(recurring_CADENCES, med)

features_cadence_label_Recurring(med) == CadenceIn(recurring_CADENCES, med)
features_cadence_label(med) == CadenceIn(features_CADENCES, med)

(***************************************************************************)
(* Evidence read from the descriptions of a group.                         *)
(***************************************************************************)
HINTS ==
    { <<"s","u","b","s","c","r","i","p","t","i","o","n">>, <<"s","u","b","s">>, <<"m","e","m","b","e","r">>, <<"m","e","m","b","e","r","s","h","i","p">>, <<"p","r","e","m","i","u","m">>, <<"p","l","u","s">>,
      <<"p","l","a","n">>, <<"a","u","t","o"," ","p","a","y">>, <<"a","u","t","o","p","a","y">>, <<"r","e","n","e","w","a","l">> }

\* " ".join(g["description"].astype(str)).lower()
DescBlob(g) == Lower(Join(AsTuple([k \in 1..Len(g) |-> AsStr(g[k].description)])))

\* any(w in desc_blob for w in HINTS)
Hint(g) == ContainsAny(DescBlob(g), HINTS)

\* int(g["brand"].notna().any())
BrandHit(g) == IF \E k \in 1..Len(g) : g[k].brand # NoValue THEN 1 ELSE 0

\* the first value of a column that is not None, None when there is none
RECURSIVE FirstNotNullFrom(_, _, _)
FirstNotNullFrom(g, col, k) ==
    IF k > Len(g) THEN NoValue
    ELSE IF g[k][col] # NoValue THEN g[k][col]
    ELSE FirstNotNullFrom(g, col, k + 1)

FirstNotNull(g, col) == FirstNotNullFrom(g, col, 1)

(***************************************************************************)
(* recurring.detect_recurring_subscriptions                                *)
(***************************************************************************)
min_occurrences == 3

\* max_cv = 0.25
max_cv == <<1, 4>>

RECURRING_CADENCES == {"weekly", "biweekly", "monthly", "yearly"}

\* the amount band 4.0 <= mean_amt <= 250.0
BAND_LO == 4

BAND_HI == 250

\* mutant of IsRecurring: any detected cadence counts, quarterly included
IsRecurring_AnyCadence(count, cv2, cadence) ==
    /\ count >= min_occurrences
    /\ CvAtMost(cv2, max_cv)
    /\ cadence # NoValue

\* is_recurring = bool(has_min and stable and cadence_ok)
IsRecurring(count, cv2, cadence) ==
    /\ count >= min_occurrences
    /\ CvAtMost(cv2, max_cv)
    /\ cadence \in RECURRING_CADENCES

\* mutant of IsSubscription: the amount band trusted for every cadence
IsSubscription_BandAnyCadence(is_recurring, brand_hit, hint, mean, cadence) ==
    /\ is_recurring
    /\ \/ brand_hit = 1
       \/ hint
       \/ MeanBetween(mean, BAND_LO, BAND_HI)

\* is_subscription = bool(is_recurring and (brand_hit or hint or
\*                        (in_amount_band and cadence == "monthly")))
IsSubscription(is_recurring, brand_hit, hint, mean, cadence) ==
    /\ is_recurring
    /\ \/ brand_hit = 1
       \/ hint
       \/ (MeanBetween(mean, BAND_LO, BAND_HI) /\ cadence = "monthly")

\* days until the next charge: 30 unless the cadence names another period
CadenceDays(cadence) ==
    IF cadence = "weekly" THEN 7
    ELSE IF cadence = "biweekly" THEN 14
    ELSE IF cadence = "quarterly" THEN 90
    ELSE IF cadence = "yearly" THEN 365
    ELSE 30

\* the significant bits of a float64
MANTISSA_BITS == 53

\* the number of binary digits of a whole number
RECURSIVE BitLength(_)
BitLength(q) == IF q = 0 THEN 0 ELSE 1 + BitLength(q \div 2)

\* The float64 quotient of two whole numbers is the exact quotient rounded to
\* MANTISSA_BITS significant bits, to nearest and to the even mantissa at half.
\* rem is the remainder left after the bits written so far, k the number of bits
\* still to write, odd the last bit written.  The result is the side of the
\* exact quotient the float lies on: -1 below, 0 equal, 1 above.
RECURSIVE MantissaRest(_, _, _, _)
MantissaRest(rem, den, k, odd) ==
    IF k = 0
    THEN IF rem = 0 THEN 0
         ELSE IF 2 * rem < den THEN -1
         ELSE IF 2 * rem > den THEN 1
         ELSE IF odd THEN 1 ELSE -1
    ELSE MantissaRest((2 * rem) % den, den, k - 1, (2 * rem) \div den = 1)

\* the zero bits of a quotient below 1, up to its first significant bit
RECURSIVE SkipZeros(_, _)
SkipZeros(rem, den) ==
    IF rem = 0 THEN 0
    ELSE IF 2 * rem >= den THEN MantissaRest((2 * rem) % den, den, MANTISSA_BITS - 1, TRUE)
    ELSE SkipZeros(2 * rem, den)

\* float(abs_amt.mean()) against the exact mean num / den
FloatSide(num, den) ==
    IF num \div den = 0 THEN SkipZeros(num % den, den)
    ELSE MantissaRest(num % den, den, MANTISSA_BITS - BitLength(num \div den),
                      (num \div den) % 2 = 1)

\* round(mean_amt, 2), in cents, of the float mean_amt = float(abs_amt.mean()):
\* the cent nearest to the float.  The float is within 2^-53 of the exact mean
\* m, far less than the distance of m to a point halfway between two cents
\* unless m is such a point; then the float's side decides, and of two nearest
\* cents of a float that is itself halfway the even one is taken.
RoundedCents(m) ==
    LET q == (100 * m[1]) \div m[2]
        r == (100 * m[1]) % m[2]
        side == FloatSide(m[1], m[2])
    IN  IF 2 * r < m[2] THEN q
        ELSE IF 2 * r > m[2] THEN q + 1
        ELSE IF side < 0 THEN q
        ELSE IF side > 0 THEN q + 1
        ELSE IF q % 2 = 0 THEN q
        ELSE q + 1

\* <<quotient, remainder>> of num * 10^k by den, one decimal digit at a time
RECURSIVE ScaledDiv(_, _, _)
ScaledDiv(num, den, k) ==
    IF k = 0 THEN <<num \div den, num % den>>
    ELSE LET p == ScaledDiv(num, den, k - 1)
         IN  <<10 * p[1] + (10 * p[2]) \div den, (10 * p[2]) % den>>

\* the integer part of the square root
RECURSIVE ISqrt(_)
ISqrt(n) ==
    IF n < 2 THEN n
    ELSE LET s == 2 * ISqrt(n \div 4)
         IN  IF (s + 1) * (s + 1) <= n THEN s + 1 ELSE s

\* round(cv, 3), in thousandths, from the square of cv: the nearest thousandth; a
\* cv halfway between two thousandths goes to the lower one, the 1e-9 in the
\* denominator of cv having put the float below the halfway point
RoundedMilli(cv2) ==
    IF cv2 = <<CV_SENTINEL * CV_SENTINEL, 1>> THEN 1000 * CV_SENTINEL
    ELSE LET x == ScaledDiv(cv2[1], cv2[2], 6)
             s == ISqrt(x[1])
         IN  IF x[1] > s * s + s \/ (x[1] = s * s + s /\ 4 * x[2] > cv2[2]) THEN s + 1
             ELSE s

\* the candidate row of one group, from its rows in date order
CandidateOf(key, g, cadence, mean_amt, cv, is_recurring, last_date) ==
    [merchant_norm |-> key,
     brand |-> FirstNotNull(g, "brand"),
     category |-> FirstNotNull(g, "category"),
     count |-> Len(g),
     mean_amt |-> RoundedCents(mean_amt),
     cv |-> RoundedMilli(cv),
     cadence |-> cadence,
     last_date |-> last_date,
     next_expected |-> last_date + CadenceDays(cadence),
     is_recurring |-> is_recurring,
     is_subscription |-> IsSubscription(is_recurring, BrandHit(g), Hint(g), mean_amt, cadence)]

CandidateWith(key, g, cadence, cv) ==
    CandidateOf(key, g, cadence, MeanAbs(g), cv, IsRecurring(Len(g), cv, cadence),
                g[Len(g)].date)

DatesOf(g) == AsTuple([k \in 1..Len(g) |-> g[k].date])

SortedCandidate(key, g) ==
    CandidateWith(key, g, recurring_cadence_label(MedianGap(GapsOf(DatesOf(g)))),
                  CvSquared(g))

CandidateRow(key, rows) == SortedCandidate(key, SortByDate(rows))

\* the order by count and amount alone
RanksBefore_NoSubscription(a, b) ==
    \/ a.count > b.count
    \/ a.count = b.count /\ a.mean_amt > b.mean_amt

\* whether row a goes before row b under
\* sort_values(["is_subscription","count","mean_amt"], ascending=[False,False,False])
RanksBefore(a, b) ==
    LET sa == IF a.is_subscription THEN 1 ELSE 0
        sb == IF b.is_subscription THEN 1 ELSE 0
    IN  \/ sa > sb
        \/ sa = sb /\ a.count > b.count
        \/ sa = sb /\ a.count = b.count /\ a.mean_amt > b.mean_amt

RECURSIVE InsertRanked(_, _)
InsertRanked(s, r) ==
    IF s = <<>> THEN <<r>>
    ELSE IF RanksBefore(r, Head(s)) THEN <<r>> \o s
    ELSE <<Head(s)>> \o InsertRanked(Tail(s), r)

RECURSIVE SortRanked(_)
SortRanked(s) ==
    IF s = <<>> THEN <<>> ELSE InsertRanked(SortRanked(SubSeq(s, 1, Len(s) - 1)), s[Len(s)])

CandidateRows(rows, grps) ==
    AsTuple([g \in 1..Len(grps) |-> CandidateRow(grps[g].key, GroupRows(rows, grps[g]))])

detect_recurring_subscriptions(rows) == SortRanked(CandidateRows(rows, groupby(rows)))

(***************************************************************************)
(* anomalies.flag_missed_cycles                                            *)
(***************************************************************************)
\* map_days.get(row["cadence"], 30)
MapDays(cadence) ==
    IF cadence = "weekly" THEN 7
    ELSE IF cadence = "biweekly" THEN 14
    ELSE IF cadence = "monthly" THEN 30
    ELSE IF cadence = "quarterly" THEN 90
    ELSE IF cadence = "yearly" THEN 365
    ELSE 30

\* mutant of GraceDays: 1.5 * days rounded up instead of truncated
GraceDays_RoundUp(days) == (3 * days + 1) \div 2

\* int(1.5 * days)
GraceDays(days) == (3 * days) \div 2

\* today > d + Timedelta(days = int(1.5 * days))
Overdue(now, last_date, days) == now > last_date + GraceDays(days)

\* (last_date is a date for every group, so "not row['last_date']" never holds)
missed(row, now) ==
    IF ~row.is_subscription \/ row.cadence = NoValue THEN 0
    ELSE IF Overdue(now, row.last_date, MapDays(row.cadence)) THEN 1
    ELSE 0

WithMissed(row, m) ==
    [merchant_norm |-> row.merchant_norm, brand |-> row.brand,
     category |-> row.category, count |-> row.count,
     mean_amt |-> row.mean_amt, cv |-> row.cv,
     cadence |-> row.cadence, last_date |-> row.last_date,
     next_expected |-> row.next_expected,
     is_recurring |-> row.is_recurring,
     is_subscription |-> row.is_subscription,
     missed_cycle |-> m]

flag_missed_cycles(table, now) ==
    AsTuple([k \in 1..Len(table) |-> WithMissed(table[k], missed(table[k], now))])

(***************************************************************************)
(* features.group_features and features.build_feature_table                *)
(***************************************************************************)
NEG_WORDS ==
    { <<"g","a","s">>, <<"f","u","e","l">>, <<"s","t","a","t","i","o","n">>, <<"w","a","l","m","a","r","t">>, <<"t","a","r","g","e","t">>, <<"m","c","d","o","n","a","l","d">>, <<"g","r","o","c","e","r","y">>,
      <<"s","t","o","r","e">>, <<"s","u","p","e","r","m","a","r","k","e","t">>, <<"l","i","q","u","o","r">>, <<"s","h","e","l","l">>, <<"c","h","e","v","r","o","n">>, <<"7","-","e","l","e","v","e","n">>,
      <<"7","e","l","e","v","e","n">>, <<"c","o","s","t","c","o">>, <<"a","l","d","i">>, <<"k","r","o","g","e","r">>, <<"t","e","s","c","o">>, <<"c","a","r","r","e","f","o","u","r">>, <<"s","p","a","r">> }

FEATURES ==
    << "brand_hit", "hint_flag", "neg_name_flag", "count", "span_days", "med_gap",
       "gap_std", "mean_amt", "cv", "debit_ratio", "is_weekly", "is_biweekly",
       "is_monthly", "is_quarterly", "is_yearly" >>

Flag(b) == IF b THEN 1 ELSE 0

_cadence_flags(label) ==
    [is_weekly |-> Flag(label = "weekly"),
     is_biweekly |-> Flag(label = "biweekly"),
     is_monthly |-> Flag(label = "monthly"),
     is_quarterly |-> Flag(label = "quarterly"),
     is_yearly |-> Flag(label = "yearly")]

FeaturesOf(rows, dates, gaps, med_gap, cad) ==
    [merchant_norm |-> rows[1].merchant_norm,
     brand_hit |-> BrandHit(rows),
     hint_flag |-> Flag(Hint(rows)),
     \* any(w in merchant for w in NEG_WORDS), merchant the lowercased key
     neg_name_flag |-> Flag(ContainsAny(Lower(rows[1].merchant_norm), NEG_WORDS)),
     count |-> Len(rows),
     span_days |-> IF Len(dates) > 1 THEN dates[Len(dates)] - dates[1] ELSE 0,
     med_gap |-> med_gap,
     \* np.std(gaps) squared, as a fraction
     gap_std |-> IF Len(gaps) = 0 THEN <<0, 1>>
                 ELSE <<VarTimesN2(gaps), Len(gaps) * Len(gaps)>>,
     mean_amt |-> MeanAbs(rows),
     \* the coefficient of variation squared, as a fraction
     cv |-> CvSquared(rows),
     debit_ratio |-> <<Cardinality({k \in 1..Len(rows) : rows[k].amount < 0}), Len(rows)>>,
     is_weekly |-> _cadence_flags(cad).is_weekly,
     is_biweekly |-> _cadence_flags(cad).is_biweekly,
     is_monthly |-> _cadence_flags(cad).is_monthly,
     is_quarterly |-> _cadence_flags(cad).is_quarterly,
     is_yearly |-> _cadence_flags(cad).is_yearly]

FeaturesWithGaps(rows, dates, gaps, med_gap) ==
    FeaturesOf(rows, dates, gaps, med_gap, features_cadence_label(med_gap))

FeaturesWithDates(rows, dates, gaps) ==
    FeaturesWithGaps(rows, dates, gaps, MedianGap(gaps))

FeaturesSorted(rows, dates) == FeaturesWithDates(rows, dates, GapsOf(dates))

group_features(rows) == FeaturesSorted(rows, SortAsc(DatesOf(rows)))

FeatureRows(rows, grps) ==
    AsTuple([g \in 1..Len(grps) |-> group_features(GroupRows(rows, grps[g]))])

build_feature_table(rows) == FeatureRows(rows, groupby(rows))

(***************************************************************************)
(* score_subs.SubscriptionScorer                                           *)
(***************************************************************************)
BLOCK_WORDS ==
    << <<"g","a","s">>, <<"f","u","e","l">>, <<"s","t","a","t","i","o","n">>, <<"w","a","l","m","a","r","t">>, <<"t","a","r","g","e","t">>, <<"m","c","d","o","n","a","l","d">>,
       <<"g","r","o","c","e","r","y">>, <<"s","t","o","r","e">>, <<"s","u","p","e","r","m","a","r","k","e","t">>, <<"l","i","q","u","o","r">>, <<"s","h","e","l","l">>,
       <<"c","h","e","v","r","o","n">>, <<"7","-","e","l","e","v","e","n">>, <<"7","e","l","e","v","e","n">>, <<"c","o","s","t","c","o">>, <<"a","l","d","i">>,
       <<"k","r","o","g","e","r">>, <<"t","e","s","c","o">>, <<"c","a","r","r","e","f","o","u","r">>, <<"s","p","a","r">> >>

\* BLOCK_PATTERN.search(key): some block word occurs in the key, whatever the case
BLOCK_PATTERN(key) == ContainsAny(Lower(key), RangeOf(BLOCK_WORDS))

\* the damping factor 0.2 of the safety post-filter
DAMPING == <<1, 5>>

\* __init__: the feature list of the metadata when it is a non-empty list, else FEATURES.
\* meta is "absent" (no path, no file, or a file that does not parse), or the value
\* of its "features" entry: a sequence of names, or "not_a_list"
MetaFeatures(meta) ==
    IF meta = <<"absent">> \/ meta = <<"not_a_list">> \/ meta = <<>> THEN FEATURES ELSE meta

\* SubscriptionScorer(model_path, meta_path, threshold): the object built, or the
\* exception raised before anything is loaded.  meta is what the constructor
\* read of the metadata file, log the messages it emitted (the code emits none).
SubscriptionScorer(model_exists, meta, th) ==
    IF ~model_exists
    THEN [raised |-> "FileNotFoundError", model |-> NoValue, threshold |-> 0,
          meta_features |-> <<>>, meta |-> <<"unread">>, log |-> <<>>]
    ELSE [raised |-> NoValue, model |-> "loaded", threshold |-> th,
          meta_features |-> MetaFeatures(meta), meta |-> meta, log |-> <<>>]

\* A model file that exists holds a model joblib.load returns, or something
\* joblib.load raises on (a truncated or foreign file): loads tells which.
\* The constructor called on the file: FileNotFoundError before anything is
\* read, the exception of joblib.load with nothing else read, or the scorer built.
Constructed(exists, loads, meta, th) ==
    IF exists /\ ~loads
    THEN [SubscriptionScorer(FALSE, meta, th) EXCEPT !.raised = "LoadError"]
    ELSE SubscriptionScorer(exists, meta, th)

\* the names of the columns of a feature table row
Columns(row) == DOMAIN row

\* mutant of AddMissing: a missing column filled with -1 instead of 0.0
AddMissing_MinusOne(row, schema) ==
    [c \in Columns(row) \cup RangeOf(schema) |-> IF c \in Columns(row) THEN row[c] ELSE -1]

\* for col in self.meta_features: if col not in feat_df.columns: feat_df[col] = 0.0
AddMissing(row, schema) ==
    [c \in Columns(row) \cup RangeOf(schema) |-> IF c \in Columns(row) THEN row[c] ELSE 0]

\* feat_df[self.meta_features]
SelectColumns(row, schema) == AsTuple([k \in 1..Len(schema) |-> row[schema[k]]])

\* _align_features(feat_df): the matrix returned, and feat_df as the loop leaves
\* it, the missing columns written into the caller's table
_align_features(ft, schema) ==
    [feat_df |-> AsTuple([r \in 1..Len(ft) |-> AddMissing(ft[r], schema)]),
     X |-> AsTuple([r \in 1..Len(ft) |-> SelectColumns(AddMissing(ft[r], schema), schema)])]

\* mutant of Classify: the comparison turned around
Classify_Flipped(prob, th) == IF prob <= th THEN 1 ELSE 0

\* probs >= self.threshold
Classify(prob, th) == IF prob >= th THEN 1 ELSE 0

\* the display statistics joined in by merchant key
StatsOf(g) ==
    [brand |-> FirstNotNull(g, "brand"),
     category |-> FirstNotNull(g, "category"),
     count |-> Len(g),
     mean_amt |-> MeanAbs(g)]

GroupStats(rows, grp) == StatsOf(GroupRows(rows, grp))

\* mutant of Blocked: the positive evidence not consulted
Blocked_NoEvidence(key, brand, brand_hit, hint_flag) == BLOCK_PATTERN(key)

\* mask = block_retail & (~has_positive)
Blocked(key, brand, brand_hit, hint_flag) ==
    /\ BLOCK_PATTERN(key)
    /\ ~(brand # NoValue \/ brand_hit = 1 \/ hint_flag = 1)

\* A probability of the table is a float64, written <<u, d>>: the float d units
\* in the last place above the float nearest to u / 5000.  Floats of different
\* u are many units apart, so two probabilities compare by u and then by d.
\* The model's probability of p thousandths is the float nearest to p / 1000.
\*
\* (p / 1000) * 0.2 in float64 against the float nearest to p / 5000, in units in
\* the last place, for p = 0 .. 1000: the product of two rounded factors is
\* rounded once more
DAMPED_ULPS ==
    <<
       0, 0, 0, 1, 0, 0, 1, 1, 0, 0, 0, 0, 1, 0, 1, 0, 0, 1, 0, 0, 0, 1, 0, 0, 1,
       1, 0, 0, 1, 1, 0, 1, 0, 1, 1, 1, 0, 0, 0, 1, 0, 0, 1, 0, 0, 0, 0, 0, 1, 1,
       1, 0, 0, 0, 0, 1, 1, 0, 1, 0, 0, 0, 1, 0, 0, 1, 1, 1, 1, 1, 1, -1, 0, 0, 0,
       0, 0, 0, 1, 0, 0, 1, 0, 0, 1, 0, 0, 0, 0, 0, 0, 0, 0, 1, 0, 1, 1, 0, 1, 0,
       1, 1, 0, 0, 0, 0, 0, 1, 0, 0, 1, 0, 1, 1, 0, 1, 1, 1, 0, 0, 0, 0, 0, 0, 1,
       0, 0, 1, 0, 1, 1, 0, 1, 1, 1, 1, 1, 1, 1, 2, 1, 0, -1, 0, 0, -1, 0, 0, 0, 0,
       0, 0, 0, 1, 0, 0, 1, 1, 0, 0, 0, 0, 1, 1, 0, 0, 0, 1, 1, 1, 0, 0, 0, 0, 0,
       -1, 0, 0, 0, 0, 0, 0, 0, 0, 0, 0, 1, 0, 0, 0, 1, 1, 1, 0, 0, 1, 1, 1, 0, 0,
       1, 1, 1, 1, 0, 0, 0, 0, 0, 1, 0, 0, 0, 0, 1, 1, 0, 0, 0, 1, 1, 0, 0, 0, 1,
       1, 1, 0, 0, 1, 1, 1, 1, 0, 1, 0, 0, 0, 0, 0, 0, 0, 0, 1, 0, 0, 0, 0, 1, 1,
       0, 0, 0, 1, 1, 1, 0, 0, 1, 1, 1, 0, 0, 1, 1, 1, 1, 0, 1, 1, 1, 1, 1, 1, 1,
       1, 1, 1, 2, 1, 1, 1, 0, 0, -1, -1, 0, 0, 0, 0, -1, 0, 0, 0, 0, 0, 0, 0, 0, 0,
       0, 1, 0, 0, 0, 0, 1, 0, 0, 0, 0, 1, 1, 0, 1, 0, 0, 0, 0, 1, 0, 1, 0, 0, 1,
       0, 1, 0, 0, 1, 0, 1, 0, 0, 1, 0, 1, 0, 1, 1, 0, 1, 0, 1, 0, -1, 0, 0, 0, 0,
       -1, 0, 0, 0, 0, 0, 0, 0, 0, 0, 0, 0, 0, 0, 0, 0, 0, 0, 0, 0, 0, 0, 1, 0, 0,
       1, 0, 1, 0, 0, 1, 0, 1, 0, 1, 1, 0, 1, 0, 1, 1, 0, 1, 0, 1, 1, 0, 1, 0, 1,
       1, 1, 1, 0, 1, 1, 1, 0, 0, 0, 0, 0, 0, 0, 0, 0, 0, 0, 1, 0, 0, 0, 0, 1, 0,
       0, 0, 0, 1, 0, 1, 0, 0, 1, 0, 1, 0, 0, 1, 0, 1, 0, 0, 1, 0, 1, 0, 1, 1, 0,
       1, 0, 1, 1, 0, 1, 0, 1, 1, 0, 1, 0, 1, 1, 1, 1, 0, 1, 1, 0, 0, 0, 0, 0, 0,
       0, 0, 0, 0, 0, 0, 1, 0, 0, 0, 0, 1, 0, 0, 0, 0, 1, 0, 1, 0, 0, 1, 0, 1, 0,
       0, 1, 0, 1, 0, 0, 1, 0, 1, 0, 1, 1, 0, 1, 0, 1, 1, 0, 1, 0, 1, 1, 0, 1, 0,
       1, 1, 1, 1, 0, 1, 1, 1, 1, 0, 1, 1, 1, 1, 0, 1, 1, 1, 1, 1, 1, 1, 1, 1, 1,
       1, 1, 1, 1, 1, 1, 2, 1, 1, 1, 1, 2, 1, -1, 0, -1, 0, 0, -1, 0, -1, 0, 0, 0, 0,
       -1, 0, 0, 0, 0, -1, 0, 0, 0, 0, -1, 0, 0, 0, 0, 0, 0, 0, 0, 0, 0, 0, 0, 0, 0,
       0, 0, 1, 0, 0, 0, 0, 1, 0, 0, 0, 0, 1, 0, 0, 0, 0, 1, 0, 1, 0, 0, 1, 0, 1,
       0, 0, 0, 1, 0, 0, 0, 0, 1, 0, 0, 0, 0, 1, 0, 0, 0, 1, 1, 0, 0, 0, 1, 1, 0,
       0, 0, 1, 1, 0, 0, 0, 1, 1, 0, 0, 0, 1, 1, 0, 0, 0, 1, 1, 0, 0, 0, 1, 1, 0,
       0, 1, 1, 1, 0, 0, 1, 1, 1, 0, 0, 1, 1, 0, 0, -1, 0, 0, 0, 0, -1, 0, 0, 0, 0,
       -1, 0, 0, 0, 0, 0, 0, 0, 0, 0, 0, 0, 0, 0, 0, 0, 0, 0, 0, 0, 0, 0, 0, 0, 0,
       0, 0, 0, 0, 0, 0, 0, 0, 0, 0, 0, 0, 0, 0, 1, 0, 0, 0, 0, 1, 0, 0, 0, 0, 1,
       1, 0, 0, 0, 1, 1, 0, 0, 0, 1, 1, 0, 0, 0, 1, 1, 0, 0, 1, 1, 1, 0, 0, 1, 1,
       1, 0, 0, 1, 1, 1, 0, 0, 1, 1, 1, 0, 0, 1, 1, 1, 0, 0, 1, 1, 1, 0, 1, 1, 1,
       1, 0, 1, 1, 1, 1, 0, 1, 1, 1, 1, 0, 1, 0, 0, 0, 0, 0, 0, 0, 0, 0, 0, 0, 0,
       0, 0, 0, 0, 0, 0, 1, 0, 0, 0, 0, 1, 0, 0, 0, 0, 1, 0, 0, 0, 0, 1, 0, 0, 0,
       0, 1, 0, 0, 0, 0, 1, 0, 0, 0, 1, 1, 0, 0, 0, 1, 1, 0, 0, 0, 1, 1, 0, 0, 0,
       1, 1, 0, 0, 0, 1, 1, 0, 0, 0, 1, 1, 0, 0, 0, 1, 1, 0, 0, 1, 1, 1, 0, 0, 1,
       1, 1, 0, 0, 1, 1, 1, 0, 0, 1, 1, 1, 0, 0, 1, 1, 1, 0, 0, 1, 1, 1, 0, 1, 1,
       1, 1, 0, 1, 1, 1, 1, 0, 1, 1, 1, 1, 0, 0, 0, 0, 0, 0, 0, 0, 0, 0, 0, 0, 0,
       0, 0, 0, 0, 0, 0, 0, 1, 0, 0, 0, 0, 1, 0, 0, 0, 0, 1, 0, 0, 0, 0, 1, 0, 0,
       0, 0, 1, 0, 0, 0, 0, 1, 0, 0, 0, 1, 1, 0, 0, 0, 1, 1, 0, 0, 0, 1, 1, 0, 0,
       0
    >>

\* a probability the post-filter leaves alone
Kept(prob) == <<DAMPING[2] * prob, 0>>

\* out.loc[mask, "prob"] * 0.2
Damped(prob) == <<DAMPING[1] * prob, DAMPED_ULPS[prob + 1]>>

\* the order of two probabilities of the table
ProbLess(a, b) == a[1] < b[1] \/ (a[1] = b[1] /\ a[2] < b[2])

\* one row of the scorer's table: the model's probability, the threshold decision
\* and the safety post-filter
Filtered(f, stats, prob, th, mask) ==
    [merchant_norm |-> f.merchant_norm,
     brand |-> stats.brand,
     category |-> stats.category,
     prob |-> IF mask THEN Damped(prob) ELSE Kept(prob),
     is_subscription |-> IF mask THEN 0 ELSE Classify(prob, th),
     count |-> stats.count,
     mean_amt |-> stats.mean_amt]

ScoredRow(f, stats, prob, th) ==
    Filtered(f, stats, prob, th,
             Blocked(f.merchant_norm, stats.brand, f.brand_hit, f.hint_flag))

\* the rearrangements of n rows
Orders(n) == {f \in [1..n -> 1..n] : \A a, b \in 1..n : f[a] = f[b] => a = b}

\* sort_values("prob", ascending=False): the rows in descending order of prob.
\* The default sort of a single column is not stable, and the order it leaves
\* rows of equal prob in is not fixed: every descending order is a result.
SortByProb(s) ==
    { AsTuple([k \in 1..Len(s) |-> s[f[k]]]) :
        f \in {g \in Orders(Len(s)) :
                 \A k \in 1..(Len(s) - 1) : ~ProbLess(s[g[k]].prob, s[g[k + 1]].prob)} }

\* steps 2 to 4 of score(): from the resolved table, its feature table and the
\* model's probabilities to the returned table
ScoredRows(rows, grps, ft, p, th) ==
    AsTuple([r \in 1..Len(ft) |-> ScoredRow(ft[r], GroupStats(rows, grps[r]), p[r], th)])

\* the tables score() can return
ScoreTable(rows, ft, p, th) == SortByProb(ScoredRows(rows, groupby(rows), ft, p, th))

(***************************************************************************)
(* Inputs.  A batch is what parse_text_to_transactions hands on: rows      *)
(* [date, description, amount] in ascending date order.                    *)
(***************************************************************************)
\* descriptions for the grouping pipeline: missing and digit-only texts (empty
\* key), keys that contain one another, a misspelling, a brand
GroupDescs ==
    { None, <<"1","2","3","4">>, <<"#","9","9">>, <<"S","h","e","l","l">>, <<"S","h","e","l","l"," ","G","a","s">>, <<"G","a","s"," ","C","o">>,
      <<"N","e","t","f","l","i","x">>, <<"N","E","T","F","L","I","X",".","C","O","M">>, <<"N","e","t","f","l","x">> }

Thresholds == {0, DEFAULT_THRESHOLD, 100}

\* rows one month apart, all of the same amount
MonthlyRows(descs) ==
    AsTuple([k \in 1..Len(descs) |->
                [date |-> 30 * (k - 1), description |-> descs[k], amount |-> -10]])

\* descriptions for the heuristic classifier: a brand, a hint word, neither
HeurDescs == { <<"N","e","t","f","l","i","x">>, <<"G","y","m"," ","M","e","m","b","e","r","s","h","i","p">>, <<"S","h","e","l","l">> }

\* days between one row and the next
GapChoices == {7, 14, 30, 90, 365}

AmountChoices == {-3, -10, 12, 300}

\* days from the last transaction of the batch to the day the dashboard runs
TodayChoices == {11, 21, 46, 548}

RECURSIVE DateAt(_, _)
DateAt(gaps, k) == IF k <= 1 THEN 0 ELSE DateAt(gaps, k - 1) + gaps[k - 1]

DatedRows(descs, gaps, amounts) ==
    AsTuple([k \in 1..Len(descs) |->
                [date |-> DateAt(gaps, k), description |-> descs[k], amount |-> amounts[k]]])

\* descriptions for the scorer: block words with and without evidence
ScoreDescs ==
    { <<"S","h","e","l","l">>, <<"S","h","e","l","l"," ","M","e","m","b","e","r","s","h","i","p">>, <<"N","e","t","f","l","i","x">>, <<"A","c","m","e">>, <<"T","a","r","g","e","t"," ","M","a","x">> }

\* the scorer's threshold and the model's probabilities, times 1000
ScoreThresholds == {500, 650, 1000}

ProbChoices == {100, 650, 900, 1000}

MetaChoices ==
    { <<"absent">>, <<"not_a_list">>, <<>>, FEATURES,
      <<"count", "brand_hit", "amount_trend">> }

NoScorer ==
    [raised |-> NoValue, model |-> NoValue, threshold |-> 0,
     meta_features |-> <<>>, meta |-> <<"unread">>, log |-> <<>>]

\* the dashboard before a run
NoApp ==
    [preferred |-> NoValue, rf_exists |-> FALSE, xgb_exists |-> FALSE,
     rf_loads |-> FALSE, xgb_loads |-> FALSE, disturbed |-> FALSE,
     rf_scorer |-> NoScorer, xgb_scorer |-> NoScorer,
     used_mode |-> "heuristic", subs_ml |-> [present |-> FALSE, rows |-> <<>>],
     raised |-> NoValue, meta |-> <<"absent">>,
     main_subs |-> [source |-> NoValue, rows |-> <<>>]]

(***************************************************************************)
(* The grouping pipeline: soft_group step by step, the brand lexicon, the  *)
(* feature table.                                                          *)
(***************************************************************************)
Idle ==
    /\ uniq = <<>> /\ mapping = EmptyMap /\ i = 0 /\ j = 0
    /\ feat = <<>> /\ subs = <<>> /\ today = 0
    /\ scorer = NoScorer /\ probs = <<>> /\ X = <<>> /\ out = <<>>
    /\ labels = <<>> /\ files = {} /\ anom = <<>>
    /\ app = NoApp /\ arg = <<>> /\ res = <<>>

InitGroup ==
    /\ pc = "parsed"
    /\ \E n \in 0..MaxTx : \E d \in [1..n -> GroupDescs] : tx = MonthlyRows(d)
    /\ threshold \in Thresholds
    /\ Idle

ApplyBrandLexicon ==
    /\ pc = "grouped"
    /\ tx' = apply_brand_lexicon(tx)
    /\ pc' = "resolved"
    /\ UNCHANGED <<threshold, uniq, mapping, i, j, feat, subs, today, scorer, probs, X, out, labels, files, anom, app, arg, res>>

BuildFeatureTable ==
    /\ pc = "resolved"
    /\ feat' = build_feature_table(tx)
    /\ pc' = "features"
    /\ UNCHANGED <<tx, threshold, uniq, mapping, i, j, subs, today, scorer, probs, X, out, labels, files, anom, app, arg, res>>

NextGroup ==
    \/ SoftGroupBegin
    \/ SoftGroupOuter
    \/ SoftGroupInner
    \/ SoftGroupEnd
    \/ ApplyBrandLexicon
    \/ BuildFeatureTable

SpecGroup == InitGroup /\ [][NextGroup]_vars

(***************************************************************************)
(* The heuristic path of the dashboard: resolve_merchants,                 *)
(* detect_recurring_subscriptions, flag_missed_cycles.                     *)
(***************************************************************************)
InitHeur ==
    /\ pc = "parsed"
    /\ \E n \in 0..MaxHeurTx :
          \E d \in [1..n -> HeurDescs], g \in [1..(n - 1) -> GapChoices],
             a \in [1..n -> AmountChoices] : tx = DatedRows(d, g, a)
    /\ threshold = DEFAULT_THRESHOLD
    /\ Idle

ResolveMerchants ==
    /\ pc = "parsed"
    /\ tx' = resolve_merchants(tx)
    /\ pc' = "resolved"
    /\ UNCHANGED <<threshold, uniq, mapping, i, j, feat, subs, today, scorer, probs, X, out, labels, files, anom, app, arg, res>>

DetectRecurring ==
    /\ pc = "resolved"
    /\ subs' = detect_recurring_subscriptions(tx)
    /\ pc' = "detected"
    /\ UNCHANGED <<tx, threshold, uniq, mapping, i, j, feat, today, scorer, probs, X, out, labels, files, anom, app, arg, res>>

\* the latest date of the batch (0 for the empty batch)
LastDay(rows) == IF Len(rows) = 0 THEN 0 ELSE rows[Len(rows)].date

FlagMissedCycles ==
    /\ pc = "detected"
    /\ \E d \in TodayChoices :
          /\ today' = LastDay(tx) + d
          /\ subs' = flag_missed_cycles(subs, LastDay(tx) + d)
    /\ pc' = "flagged"
    /\ UNCHANGED <<tx, threshold, uniq, mapping, i, j, feat, scorer, probs, X, out, labels, files, anom, app, arg, res>>

NextHeur ==
    \/ ResolveMerchants
    \/ DetectRecurring
    \/ FlagMissedCycles

SpecHeur == InitHeur /\ [][NextHeur]_vars

(***************************************************************************)
(* The model path: SubscriptionScorer(model_path, meta_path, threshold)    *)
(* and score(tx).  The trained model is opaque: predict_proba is any       *)
(* function of the aligned feature rows.                                   *)
(***************************************************************************)
InitScore ==
    /\ pc = "parsed"
    /\ \E n \in 0..MaxTx : \E d \in [1..n -> ScoreDescs] : tx = MonthlyRows(d)
    /\ threshold = 0
    /\ Idle

\* __init__ with an existing model file
ScorerInit ==
    /\ pc = "parsed"
    /\ \E th \in ScoreThresholds, meta \in MetaChoices :
          /\ scorer' = Constructed(TRUE, TRUE, meta, th)
          /\ threshold' = th
    /\ pc' = "ready"
    /\ UNCHANGED <<tx, uniq, mapping, i, j, feat, subs, today, probs, X, out, labels, files, anom, app, arg, res>>

\* __init__ without a model file: raise FileNotFoundError
ScorerInitNoModel ==
    /\ pc = "parsed"
    /\ \E th \in ScoreThresholds, meta \in MetaChoices :
          scorer' = Constructed(FALSE, FALSE, meta, th)
    /\ pc' = "model_not_found"
    /\ UNCHANGED <<tx, threshold, uniq, mapping, i, j, feat, subs, today, probs, X, out, labels, files, anom, app, arg, res>>

\* __init__ with a model file that joblib.load raises on
ScorerInitLoadFails ==
    /\ pc = "parsed"
    /\ \E th \in ScoreThresholds, meta \in MetaChoices :
          scorer' = Constructed(TRUE, FALSE, meta, th)
    /\ pc' = "model_load_failed"
    /\ UNCHANGED <<tx, threshold, uniq, mapping, i, j, feat, subs, today, probs, X, out, labels, files, anom, app, arg, res>>

\* predict_proba: one probability per row, equal rows getting equal probabilities
Predictions(matrix) ==
    { p \in [1..Len(matrix) -> ProbChoices] :
        \A a, b \in 1..Len(matrix) : matrix[a] = matrix[b] => p[a] = p[b] }

\* score(): an empty batch has a feature table without a merchant_norm column, and
\* selecting the columns kept for the merge raises KeyError
Score ==
    /\ pc = "ready"
    /\ tx' = resolve_merchants(tx)
    /\ feat' = _align_features(build_feature_table(tx'), scorer.meta_features).feat_df
    /\ X' = _align_features(build_feature_table(tx'), scorer.meta_features).X
    /\ IF Len(feat') = 0
       THEN /\ pc' = "score_failed"
            /\ UNCHANGED <<probs, out>>
       ELSE \E p \in Predictions(X') :
               /\ probs' = p
               /\ out' \in ScoreTable(tx', feat', p, scorer.threshold)
               /\ pc' = "scored"
    /\ UNCHANGED <<threshold, uniq, mapping, i, j, subs, today, scorer, labels, files, anom, app, arg, res>>

\* score() on a batch with rows when self.model.predict_proba raises (the
\* estimator refuses the matrix: it was fitted on other columns than the schema
\* names): the features are built and aligned, and no table is returned
ScoreFails ==
    /\ pc = "ready"
    /\ tx' = resolve_merchants(tx)
    /\ feat' = _align_features(build_feature_table(tx'), scorer.meta_features).feat_df
    /\ X' = _align_features(build_feature_table(tx'), scorer.meta_features).X
    /\ Len(feat') > 0
    /\ pc' = "predict_failed"
    /\ UNCHANGED <<threshold, uniq, mapping, i, j, subs, today, scorer, probs, out, labels, files, anom, app, arg, res>>

NextScore ==
    \/ ScorerInit
    \/ ScorerInitNoModel
    \/ ScorerInitLoadFails
    \/ Score
    \/ ScoreFails

SpecScore == InitScore /\ [][NextScore]_vars


(***************************************************************************)
(* The dashboard (frontend/app.py): one run on a parsed batch.             *)
(*                                                                         *)
(* The record app holds the run's choices and locals and the models        *)
(* directory as the run finds it: for each model file whether it exists    *)
(* and whether joblib.load returns a model from it, and what the metadata  *)
(* file gives.  The run reads the directory at several lines, one step     *)
(* each; between them a training of another session (the button of         *)
(* app.py 141-146, or the command line trainer) may write the files, and   *)
(* disturbed records that one did.                                         *)
(***************************************************************************)
\* the thresholds the dashboard builds its scorers with, times 1000
RF_THRESHOLD == 1000

XGB_THRESHOLD == 650

PREFERRED_MODELS == {"Auto (prefer XGBoost)", "RandomForest", "XGBoost", "Heuristic only"}

\* a table that may be None
NoTable == [present |-> FALSE, rows |-> <<>>]

Table(rows) == [present |-> TRUE, rows |-> rows]

\* PREFERRED_MODEL != "Heuristic only" and (exists(rf_path) or exists(xgb_path)),
\* on a directory that stays as it is
TriesModel(a) == a.preferred # "Heuristic only" /\ (a.rf_exists \/ a.xgb_exists)

\* the two scorers the try block builds, in this order
MODELS == <<"rf", "xgb">>

FileExists(a, name) == IF name = "rf" THEN a.rf_exists ELSE a.xgb_exists

FileLoads(a, name) == IF name = "rf" THEN a.rf_loads ELSE a.xgb_loads

\* threshold=1 for rf_scorer, threshold=0.65 for xgb_scorer
ThresholdOf(name) == IF name = "rf" THEN RF_THRESHOLD ELSE XGB_THRESHOLD

\* the positions of the run inside a constructor call, and after it
AtExists == [rf |-> "rf_exists", xgb |-> "xgb_exists"]

AtLoad == [rf |-> "rf_load", xgb |-> "xgb_load"]

AtMeta == [rf |-> "rf_meta", xgb |-> "xgb_meta"]

AfterMeta == [rf |-> "xgb_exists", xgb |-> "app_select"]

\* except Exception as e: subs_ml = None
Caught(a, exception) == [a EXCEPT !.raised = exception, !.subs_ml = NoTable]

\* the model selection logic
UsedMode(preferred, rf_exists, xgb_exists) ==
    IF preferred \in {"Auto (prefer XGBoost)", "XGBoost"} /\ xgb_exists THEN "xgboost"
    ELSE IF preferred = "RandomForest" /\ rf_exists THEN "random_forest"
    ELSE IF xgb_exists THEN "xgboost"
    ELSE "random_forest"

\* subs_ml.rename(columns={"prob": "score"})
RenameProb(rows) ==
    AsTuple([k \in 1..Len(rows) |->
                [merchant_norm |-> rows[k].merchant_norm, brand |-> rows[k].brand,
                 category |-> rows[k].category, score |-> rows[k].prob,
                 is_subscription |-> rows[k].is_subscription,
                 count |-> rows[k].count, mean_amt |-> rows[k].mean_amt]])

\* subs_heur.assign(score = is_subscription.astype(int))
AssignScore(rows) ==
    AsTuple([k \in 1..Len(rows) |->
                [merchant_norm |-> rows[k].merchant_norm, brand |-> rows[k].brand,
                 category |-> rows[k].category, count |-> rows[k].count,
                 mean_amt |-> rows[k].mean_amt, cv |-> rows[k].cv,
                 cadence |-> rows[k].cadence, last_date |-> rows[k].last_date,
                 next_expected |-> rows[k].next_expected,
                 is_recurring |-> rows[k].is_recurring,
                 is_subscription |-> rows[k].is_subscription,
                 missed_cycle |-> rows[k].missed_cycle,
                 score |-> Flag(rows[k].is_subscription)]])

\* mutant of MainSubs: no fallback, the model's table shown even when there is none
MainSubs_NoFallback(subs_ml, subs_heur) ==
    [source |-> "ml", rows |-> RenameProb(subs_ml.rows)]

\* the table shown as the main subscriptions
MainSubs(subs_ml, subs_heur) ==
    IF subs_ml.present THEN [source |-> "ml", rows |-> RenameProb(subs_ml.rows)]
    ELSE [source |-> "heuristic", rows |-> AssignScore(subs_heur)]

\* bound and inputs of the dashboard's runs
MaxAppTx == 2

AppDescs == { <<"N","e","t","f","l","i","x">>, <<"S","h","e","l","l">>, <<"G","y","m"," ","M","e","m","b","e","r","s","h","i","p">> }

AppMetaChoices == { <<"absent">>, FEATURES }

AppTodayChoices == {11, 46}

\* a model file: missing, there but not loadable, or there with a model in it
ModelFiles == {f \in [exists : BOOLEAN, loads : BOOLEAN] : f.loads => f.exists}

InitApp ==
    /\ pc = "parsed"
    /\ \E n \in 0..MaxAppTx : \E d \in [1..n -> AppDescs] : tx = MonthlyRows(d)
    /\ threshold = DEFAULT_THRESHOLD
    /\ uniq = <<>> /\ mapping = EmptyMap /\ i = 0 /\ j = 0
    /\ feat = <<>> /\ subs = <<>> /\ today = 0
    /\ scorer = NoScorer /\ probs = <<>> /\ X = <<>> /\ out = <<>>
    /\ labels = <<>> /\ files = {} /\ anom = <<>> /\ arg = <<>> /\ res = <<>>
    /\ \E p \in PREFERRED_MODELS, r \in ModelFiles, x \in ModelFiles, m \in AppMetaChoices :
          app = [NoApp EXCEPT !.preferred = p, !.rf_exists = r.exists, !.rf_loads = r.loads,
                              !.xgb_exists = x.exists, !.xgb_loads = x.loads, !.meta = m]

\* if tx.empty: st.error(...); st.stop()
AppStop ==
    /\ pc = "parsed"
    /\ Len(tx) = 0
    /\ pc' = "stopped"
    /\ UNCHANGED <<tx, threshold, uniq, mapping, i, j, feat, subs, today, scorer, probs,
                   X, out, labels, files, anom, app, arg, res>>

\* tx = resolve_merchants(tx)
AppResolve ==
    /\ pc = "parsed"
    /\ Len(tx) > 0
    /\ tx' = resolve_merchants(tx)
    /\ pc' = "app_resolved"
    /\ UNCHANGED <<threshold, uniq, mapping, i, j, feat, subs, today, scorer, probs,
                   X, out, labels, files, anom, app, arg, res>>

\* PREFERRED_MODEL is "Heuristic only": the condition is false without a look
\* at the directory, and the try block is not entered
AppScoreSkipped ==
    /\ pc = "app_resolved"
    /\ app.preferred = "Heuristic only"
    /\ pc' = "app_scored"
    /\ UNCHANGED <<tx, threshold, uniq, mapping, i, j, feat, subs, today, scorer, probs,
                   X, out, labels, files, anom, app, arg, res>>

\* if PREFERRED_MODEL != "Heuristic only" and (os.path.exists(rf) or ...: the
\* first operand of the or; a file that is there enters the try block
AppTry ==
    /\ pc = "app_resolved"
    /\ app.preferred # "Heuristic only"
    /\ pc' = IF FileExists(app, MODELS[1]) THEN AtExists[MODELS[1]] ELSE "xgb_tried"
    /\ UNCHANGED <<tx, threshold, uniq, mapping, i, j, feat, subs, today, scorer, probs,
                   X, out, labels, files, anom, app, arg, res>>

\* ... or os.path.exists(xgb)): the second operand, evaluated when the first
\* is false; with neither file the try block is not entered
AppTryXgb ==
    /\ pc = "xgb_tried"
    /\ pc' = IF FileExists(app, MODELS[2]) THEN AtExists[MODELS[1]] ELSE "app_scored"
    /\ UNCHANGED <<tx, threshold, uniq, mapping, i, j, feat, subs, today, scorer, probs,
                   X, out, labels, files, anom, app, arg, res>>

\* SubscriptionScorer.__init__: if not os.path.exists(model_path): raise FileNotFoundError
AppExists(name) ==
    /\ pc = AtExists[name]
    /\ IF FileExists(app, name)
       THEN /\ pc' = AtLoad[name]
            /\ UNCHANGED app
       ELSE /\ pc' = "app_scored"
            /\ app' = Caught(app, Constructed(FALSE, FALSE, app.meta, ThresholdOf(name)).raised)
    /\ UNCHANGED <<tx, threshold, uniq, mapping, i, j, feat, subs, today, scorer, probs,
                   X, out, labels, files, anom, arg, res>>

\* SubscriptionScorer.__init__: self.model = joblib.load(model_path)
AppLoad(name) ==
    /\ pc = AtLoad[name]
    /\ IF FileLoads(app, name)
       THEN /\ pc' = AtMeta[name]
            /\ UNCHANGED app
       ELSE /\ pc' = "app_scored"
            /\ app' = Caught(app, Constructed(TRUE, FALSE, app.meta, ThresholdOf(name)).raised)
    /\ UNCHANGED <<tx, threshold, uniq, mapping, i, j, feat, subs, today, scorer, probs,
                   X, out, labels, files, anom, arg, res>>

\* SubscriptionScorer.__init__: the threshold and the feature list of the
\* metadata; rf_scorer or xgb_scorer is built
AppMeta(name) ==
    /\ pc = AtMeta[name]
    /\ app' = IF name = "rf"
              THEN [app EXCEPT !.rf_scorer = Constructed(TRUE, TRUE, app.meta, ThresholdOf(name))]
              ELSE [app EXCEPT !.xgb_scorer = Constructed(TRUE, TRUE, app.meta, ThresholdOf(name))]
    /\ pc' = AfterMeta[name]
    /\ UNCHANGED <<tx, threshold, uniq, mapping, i, j, feat, subs, today, scorer, probs,
                   X, out, labels, files, anom, arg, res>>

\* scorer, used_mode = ... : the model selection logic
AppSelect ==
    /\ pc = "app_select"
    /\ scorer' = IF UsedMode(app.preferred, app.rf_exists, app.xgb_exists) = "xgboost"
                 THEN app.xgb_scorer ELSE app.rf_scorer
    /\ app' = [app EXCEPT !.used_mode = UsedMode(app.preferred, app.rf_exists, app.xgb_exists)]
    /\ pc' = "app_score"
    /\ UNCHANGED <<tx, threshold, uniq, mapping, i, j, feat, subs, today, probs,
                   X, out, labels, files, anom, arg, res>>

\* subs_ml = scorer.score(tx)[[...]]
AppScore ==
    /\ pc = "app_score"
    /\ feat' = _align_features(build_feature_table(resolve_merchants(tx)),
                               scorer.meta_features).feat_df
    /\ X' = _align_features(build_feature_table(resolve_merchants(tx)),
                            scorer.meta_features).X
    /\ \E p \in Predictions(X') :
          /\ probs' = p
          /\ out' \in ScoreTable(resolve_merchants(tx), feat', p, scorer.threshold)
    /\ app' = [app EXCEPT !.subs_ml = Table(out')]
    /\ pc' = "app_scored"
    /\ UNCHANGED <<tx, threshold, uniq, mapping, i, j, subs, today, scorer, labels, files,
                   anom, arg, res>>

\* scorer.score(tx) raises (the model refuses the matrix): used_mode is set by
\* then, and except Exception leaves subs_ml = None
AppScoreFails ==
    /\ pc = "app_score"
    /\ feat' = _align_features(build_feature_table(resolve_merchants(tx)),
                               scorer.meta_features).feat_df
    /\ X' = _align_features(build_feature_table(resolve_merchants(tx)),
                            scorer.meta_features).X
    /\ app' = Caught(app, "ScoreError")
    /\ pc' = "app_scored"
    /\ UNCHANGED <<tx, threshold, uniq, mapping, i, j, subs, today, scorer, probs, out,
                   labels, files, anom, arg, res>>

\* The positions at which the run still has a reading of the models directory
\* before it: what is written earlier is a directory the run starts with, and
\* what is written later is not read.
READING == {"app_resolved", "xgb_tried", "rf_exists", "rf_load", "rf_meta", "xgb_exists",
            "xgb_load", "xgb_meta", "app_select"}

\* another session's joblib.dump opens the model file for writing: the file is
\* there, and until the dump is over joblib.load raises on it
OtherDumpBegins(name) ==
    /\ pc \in READING
    /\ ~(FileExists(app, name) /\ ~FileLoads(app, name))
    /\ app' = IF name = "rf"
              THEN [app EXCEPT !.rf_exists = TRUE, !.rf_loads = FALSE, !.disturbed = TRUE]
              ELSE [app EXCEPT !.xgb_exists = TRUE, !.xgb_loads = FALSE, !.disturbed = TRUE]
    /\ UNCHANGED <<pc, tx, threshold, uniq, mapping, i, j, feat, subs, today, scorer, probs,
                   X, out, labels, files, anom, arg, res>>

\* the dump is over: the file holds a model
OtherDumpEnds(name) ==
    /\ pc \in READING
    /\ FileExists(app, name) /\ ~FileLoads(app, name)
    /\ app' = IF name = "rf"
              THEN [app EXCEPT !.rf_loads = TRUE, !.disturbed = TRUE]
              ELSE [app EXCEPT !.xgb_loads = TRUE, !.disturbed = TRUE]
    /\ UNCHANGED <<pc, tx, threshold, uniq, mapping, i, j, feat, subs, today, scorer, probs,
                   X, out, labels, files, anom, arg, res>>

\* another session opens subs_meta.json for writing: until json.dump is over the
\* file does not parse, which the constructor passes over
OtherMetaBegins ==
    /\ pc \in READING
    /\ app.meta # <<"absent">>
    /\ app' = [app EXCEPT !.meta = <<"absent">>, !.disturbed = TRUE]
    /\ UNCHANGED <<pc, tx, threshold, uniq, mapping, i, j, feat, subs, today, scorer, probs,
                   X, out, labels, files, anom, arg, res>>

\* json.dump is over: the file holds "features": FEATURES
OtherMetaEnds ==
    /\ pc \in READING
    /\ app.meta = <<"absent">>
    /\ app' = [app EXCEPT !.meta = FEATURES, !.disturbed = TRUE]
    /\ UNCHANGED <<pc, tx, threshold, uniq, mapping, i, j, feat, subs, today, scorer, probs,
                   X, out, labels, files, anom, arg, res>>

\* subs_heur = flag_missed_cycles(detect_recurring_subscriptions(tx))
AppHeuristics ==
    /\ pc = "app_scored"
    /\ \E d \in AppTodayChoices :
          /\ today' = LastDay(tx) + d
          /\ subs' = flag_missed_cycles(detect_recurring_subscriptions(tx), LastDay(tx) + d)
    /\ pc' = "app_heuristics"
    /\ UNCHANGED <<tx, threshold, uniq, mapping, i, j, feat, scorer, probs, X, out,
                   labels, files, anom, app, arg, res>>

\* main_subs = subs_ml if subs_ml is not None else subs_heur
AppShow ==
    /\ pc = "app_heuristics"
    /\ app' = [app EXCEPT !.main_subs = MainSubs(app.subs_ml, subs)]
    /\ pc' = "shown"
    /\ UNCHANGED <<tx, threshold, uniq, mapping, i, j, feat, subs, today, scorer, probs,
                   X, out, labels, files, anom, arg, res>>

NextApp ==
    \/ AppStop
    \/ AppResolve
    \/ AppScoreSkipped
    \/ AppTry
    \/ AppTryXgb
    \/ \E name \in RangeOf(MODELS) : AppExists(name)
    \/ \E name \in RangeOf(MODELS) : AppLoad(name)
    \/ \E name \in RangeOf(MODELS) : AppMeta(name)
    \/ AppSelect
    \/ AppScore
    \/ AppScoreFails
    \/ \E name \in RangeOf(MODELS) : OtherDumpBegins(name)
    \/ \E name \in RangeOf(MODELS) : OtherDumpEnds(name)
    \/ OtherMetaBegins
    \/ OtherMetaEnds
    \/ AppHeuristics
    \/ AppShow

SpecApp == InitApp /\ [][NextApp]_vars

(***************************************************************************)
(* weak_labels.weak_label                                                  *)
(***************************************************************************)
NEGATIVE_MERCHANTS ==
    << <<"g","a","s">>, <<"f","u","e","l">>, <<"s","t","a","t","i","o","n">>, <<"w","a","l","m","a","r","t">>, <<"t","a","r","g","e","t">>, <<"m","c","d","o","n","a","l","d">>,
       <<"g","r","o","c","e","r","y">>, <<"s","t","o","r","e">>, <<"s","u","p","e","r","m","a","r","k","e","t">>, <<"l","i","q","u","o","r">>, <<"s","h","e","l","l">>,
       <<"c","h","e","v","r","o","n">>, <<"7","-","e","l","e","v","e","n">>, <<"7","e","l","e","v","e","n">>, <<"c","o","s","t","c","o">>, <<"a","l","d","i">>,
       <<"k","r","o","g","e","r">>, <<"t","e","s","c","o">>, <<"c","a","r","r","e","f","o","u","r">>, <<"s","p","a","r">> >>

\* NEG_TOKENS.search(key): some listed word occurs in the key, whatever the case
NEG_TOKENS(key) == ContainsAny(Lower(key), RangeOf(NEGATIVE_MERCHANTS))

\* the bounds of feat["mean_amt"].between(1.0, 300.0)
AMT_LO == 1

AMT_HI == 300

\* the bound 0.35 of feat["cv"] <= 0.35, as the fraction 7/20
WEAK_MAX_CV == <<7, 20>>

YEARLY_MIN_SPAN == 300

YEARLY_MIN_COUNT == 1

CYCLIC_MIN_COUNT == 2

reasonable_amt(f) == MeanBetween(f.mean_amt, AMT_LO, AMT_HI)

positive(f) == f.brand_hit = 1 \/ f.hint_flag = 1

\* the yearly rule as its docstring words it for one charge: the count alone
yearly_CountOnly(f) == f.count >= YEARLY_MIN_COUNT

yearly(f) ==
    f.is_yearly = 1 /\ f.span_days >= YEARLY_MIN_SPAN /\ f.count >= YEARLY_MIN_COUNT

cyclic(f) ==
    /\ f.is_monthly = 1 \/ f.is_biweekly = 1 \/ f.is_weekly = 1
    /\ f.count >= CYCLIC_MIN_COUNT
    /\ CvAtMost(f.cv, WEAK_MAX_CV)

\* ~mnorm.str.contains(NEG_TOKENS), mnorm the key with None replaced by ""
not_retailish(f) ==
    ~NEG_TOKENS(IF f.merchant_norm = None THEN <<>> ELSE f.merchant_norm)

\* mutant of LabelOf: the cyclic rule without its limit on cv
LabelOf_CyclicAnyCv(f) ==
    Flag(/\ reasonable_amt(f)
         /\ yearly(f) \/ (/\ f.is_monthly = 1 \/ f.is_biweekly = 1 \/ f.is_weekly = 1
                          /\ f.count >= CYCLIC_MIN_COUNT)
         /\ positive(f)
         /\ not_retailish(f))

\* label = reasonable_amt & (yearly | cyclic) & positive & not_retailish, as int
LabelOf(f) ==
    Flag(reasonable_amt(f) /\ (yearly(f) \/ cyclic(f)) /\ positive(f) /\ not_retailish(f))

weak_label(ft) == AsTuple([r \in 1..Len(ft) |-> LabelOf(ft[r])])

(***************************************************************************)
(* weak_label applied to feature vectors drawn from the values around its  *)
(* limits.                                                                 *)
(***************************************************************************)
WeakMeans == { <<0, 1>>, <<1, 2>>, <<1, 1>>, <<300, 1>>, <<601, 2>> }

WeakKeys == { <<>>, <<"a","c","m","e">>, <<"c","o","s","t","c","o"," ","c","l","u","b">> }

WeakSpans == {0, 299, 300}

WeakCounts == {1, 2}

\* cv squared: 0, 0.35 squared, just above it, and the sentinel 999 squared
WeakCvs == { <<0, 1>>, <<49, 400>>, <<50, 400>>, <<CV_SENTINEL * CV_SENTINEL, 1>> }

WeakCadences == {NoValue, "weekly", "biweekly", "monthly", "quarterly", "yearly"}

\* a feature vector with the columns weak_label reads
WeakVector(key, mean, brand_hit, hint_flag, cad, span, count, cv) ==
    [merchant_norm |-> key, mean_amt |-> mean, brand_hit |-> brand_hit,
     hint_flag |-> hint_flag, span_days |-> span, count |-> count, cv |-> cv,
     is_weekly |-> Flag(cad = "weekly"), is_biweekly |-> Flag(cad = "biweekly"),
     is_monthly |-> Flag(cad = "monthly"), is_quarterly |-> Flag(cad = "quarterly"),
     is_yearly |-> Flag(cad = "yearly")]

Unused ==
    /\ tx = <<>> /\ threshold = 0
    /\ uniq = <<>> /\ mapping = EmptyMap /\ i = 0 /\ j = 0
    /\ feat = <<>> /\ subs = <<>> /\ today = 0
    /\ scorer = NoScorer /\ probs = <<>> /\ X = <<>> /\ out = <<>>
    /\ labels = <<>> /\ files = {} /\ anom = <<>> /\ app = NoApp

InitWeak ==
    /\ pc = "input"
    /\ \E key \in WeakKeys, mean \in WeakMeans, b \in {0, 1}, h \in {0, 1},
          cad \in WeakCadences, span \in WeakSpans, count \in WeakCounts, cv \in WeakCvs :
          arg = <<WeakVector(key, mean, b, h, cad, span, count, cv)>>
    /\ res = <<>>
    /\ Unused

ApplyWeakLabel ==
    /\ pc = "input"
    /\ res' = weak_label(arg)
    /\ pc' = "applied"
    /\ UNCHANGED <<tx, threshold, uniq, mapping, i, j, feat, subs, today, scorer, probs,
                   X, out, labels, files, anom, app, arg>>

NextWeak == ApplyWeakLabel

SpecWeak == InitWeak /\ [][NextWeak]_vars

(***************************************************************************)
(* train_subs_models.train_from_transactions.  The variable files is the   *)
(* models directory: for every file in it, whether it is as it was found   *)
(* ("old") or was written by the run ("new").                              *)
(***************************************************************************)
ARTIFACTS == {"rf_subscription.pkl", "xgb_subscription.pkl", "subs_meta.json"}

\* the models directory: no artifact, or the artifacts of an earlier training
NoFiles == [n \in {} |-> "old"]

OldFiles == [n \in ARTIFACTS |-> "old"]

\* joblib.dump / json.dump of one artifact into the directory: the file is
\* created or replaced, the other files stay as they are
Dumped(dir, name) == [n \in (DOMAIN dir) \cup {name} |-> IF n = name THEN "new" ELSE dir[n]]

\* mutant of SingleClass: the check left out
SingleClass_Never(y) == FALSE

\* len(np.unique(y)) < 2
SingleClass(y) == Cardinality(RangeOf(y)) < 2

\* bound and inputs of the training runs
MaxTrainTx == 3

TrainDescs == { <<"N","e","t","f","l","i","x">>, <<"G","y","m"," ","M","e","m","b","e","r","s","h","i","p">>, <<"C","o","s","t","c","o"," ","M","e","m","b","e","r","s","h","i","p">>, <<"S","h","e","l","l">> }

TrainGaps == {30, 365}

TrainAmounts == {0, -15, -60}

InitTrain ==
    /\ pc = "parsed"
    /\ \E n \in 0..MaxTrainTx :
          \E d \in [1..n -> TrainDescs], g \in [1..(n - 1) -> TrainGaps],
             a \in [1..n -> TrainAmounts] : tx = DatedRows(d, g, a)
    /\ threshold = DEFAULT_THRESHOLD
    /\ uniq = <<>> /\ mapping = EmptyMap /\ i = 0 /\ j = 0
    /\ feat = <<>> /\ subs = <<>> /\ today = 0
    /\ scorer = NoScorer /\ probs = <<>> /\ X = <<>> /\ out = <<>>
    /\ labels = <<>> /\ anom = <<>> /\ app = NoApp /\ arg = <<>> /\ res = <<>>
    /\ files \in {NoFiles, OldFiles}

\* _prepare_xy and the check of the classes.  The feature table of an empty
\* batch has no column, and weak_label raises KeyError on feat["mean_amt"].
TrainPrepare ==
    /\ pc = "parsed"
    /\ tx' = resolve_merchants(tx)
    /\ feat' = build_feature_table(tx')
    /\ IF Len(feat') = 0
       THEN labels' = <<>> /\ pc' = "train_key_error"
       ELSE /\ labels' = weak_label(feat')
            /\ pc' = IF SingleClass(labels') THEN "train_single_class" ELSE "train_checked"
    /\ UNCHANGED <<threshold, uniq, mapping, i, j, subs, today, scorer, probs, X, out,
                   files, anom, app, arg, res>>

\* train_test_split and the two fits: the libraries fit the models or raise (they
\* demand enough samples of each class), and nothing is written before they return
TrainFit ==
    /\ pc = "train_checked"
    /\ pc' \in {"train_fitted", "train_fit_failed"}
    /\ UNCHANGED <<tx, threshold, uniq, mapping, i, j, feat, subs, today, scorer, probs,
                   X, out, labels, files, anom, app, arg, res>>

\* os.makedirs(out_dir, exist_ok=True); joblib.dump(rf, .../rf_subscription.pkl)
TrainWriteRf ==
    /\ pc = "train_fitted"
    /\ files' = Dumped(files, "rf_subscription.pkl")
    /\ pc' = "rf_written"
    /\ UNCHANGED <<tx, threshold, uniq, mapping, i, j, feat, subs, today, scorer, probs,
                   X, out, labels, anom, app, arg, res>>

\* joblib.dump(xgb, .../xgb_subscription.pkl)
TrainWriteXgb ==
    /\ pc = "rf_written"
    /\ files' = Dumped(files, "xgb_subscription.pkl")
    /\ pc' = "xgb_written"
    /\ UNCHANGED <<tx, threshold, uniq, mapping, i, j, feat, subs, today, scorer, probs,
                   X, out, labels, anom, app, arg, res>>

\* json.dump(meta, f, indent=2) into subs_meta.json
TrainWriteMeta ==
    /\ pc = "xgb_written"
    /\ files' = Dumped(files, "subs_meta.json")
    /\ pc' = "trained"
    /\ UNCHANGED <<tx, threshold, uniq, mapping, i, j, feat, subs, today, scorer, probs,
                   X, out, labels, anom, app, arg, res>>

(***************************************************************************)
(* train_eval_cli.main: the command line trainer.  The batch is the parse  *)
(* of the text files found; arg holds the --save flag.  It writes into the *)
(* same directory (--out-dir defaults to "models").                        *)
(***************************************************************************)
SAVE == <<"--save">>

\* the files evaluate() writes for a model: the metrics, and the two plots inside
\* a try that passes over any exception, so the ROC plot, or both plots, may be missing
Metrics(name) == IF name = "rf" THEN "rf_subscription_metrics.json" ELSE "xgb_subscription_metrics.json"

Roc(name) == IF name = "rf" THEN "rf_subscription_roc.png" ELSE "xgb_subscription_roc.png"

Pr(name) == IF name = "rf" THEN "rf_subscription_pr.png" ELSE "xgb_subscription_pr.png"

Evaluated(dir, name) ==
    { Dumped(dir, Metrics(name)),
      Dumped(Dumped(dir, Metrics(name)), Roc(name)),
      Dumped(Dumped(Dumped(dir, Metrics(name)), Roc(name)), Pr(name)) }

\* main() up to the check of the classes: SystemExit on an empty batch and on
\* labels of one class, before anything is fitted or written
CliPrepare ==
    /\ pc = "parsed"
    /\ arg' \in {<<>>, SAVE}
    /\ IF Len(tx) = 0
       THEN /\ pc' = "cli_no_transactions"
            /\ UNCHANGED <<tx, feat, labels>>
       ELSE /\ tx' = resolve_merchants(tx)
            /\ feat' = build_feature_table(tx')
            /\ labels' = weak_label(feat')
            /\ pc' = IF SingleClass(labels') THEN "cli_single_class" ELSE "cli_checked"
    /\ UNCHANGED <<threshold, uniq, mapping, i, j, subs, today, scorer, probs, X, out,
                   files, anom, app, res>>

\* train_models: the split and the two fits return or raise
CliTrainModels ==
    /\ pc = "cli_checked"
    /\ pc' \in {"cli_fitted", "cli_fit_failed"}
    /\ UNCHANGED <<tx, threshold, uniq, mapping, i, j, feat, subs, today, scorer, probs,
                   X, out, labels, files, anom, app, arg, res>>

\* evaluate("rf_subscription", rf, ...)
CliEvaluateRf ==
    /\ pc = "cli_fitted"
    /\ files' \in Evaluated(files, "rf")
    /\ pc' = "cli_rf_evaluated"
    /\ UNCHANGED <<tx, threshold, uniq, mapping, i, j, feat, subs, today, scorer, probs,
                   X, out, labels, anom, app, arg, res>>

\* evaluate("xgb_subscription", xgb, ...); if args.save
CliEvaluateXgb ==
    /\ pc = "cli_rf_evaluated"
    /\ files' \in Evaluated(files, "xgb")
    /\ pc' = IF arg = SAVE THEN "cli_saving" ELSE "cli_done"
    /\ UNCHANGED <<tx, threshold, uniq, mapping, i, j, feat, subs, today, scorer, probs,
                   X, out, labels, anom, app, arg, res>>

\* joblib.dump(rf, .../rf_subscription.pkl)
CliSaveRf ==
    /\ pc = "cli_saving"
    /\ files' = Dumped(files, "rf_subscription.pkl")
    /\ pc' = "cli_rf_saved"
    /\ UNCHANGED <<tx, threshold, uniq, mapping, i, j, feat, subs, today, scorer, probs,
                   X, out, labels, anom, app, arg, res>>

\* joblib.dump(xgb, .../xgb_subscription.pkl)
CliSaveXgb ==
    /\ pc = "cli_rf_saved"
    /\ files' = Dumped(files, "xgb_subscription.pkl")
    /\ pc' = "cli_xgb_saved"
    /\ UNCHANGED <<tx, threshold, uniq, mapping, i, j, feat, subs, today, scorer, probs,
                   X, out, labels, anom, app, arg, res>>

\* json.dump({"features": FEATURES, "version": "subs_v1"}, f) into subs_meta.json
CliSaveMeta ==
    /\ pc = "cli_xgb_saved"
    /\ files' = Dumped(files, "subs_meta.json")
    /\ pc' = "cli_done"
    /\ UNCHANGED <<tx, threshold, uniq, mapping, i, j, feat, subs, today, scorer, probs,
                   X, out, labels, anom, app, arg, res>>

NextTrain ==
    \/ TrainPrepare
    \/ TrainFit
    \/ TrainWriteRf
    \/ TrainWriteXgb
    \/ TrainWriteMeta
    \/ CliPrepare
    \/ CliTrainModels
    \/ CliEvaluateRf
    \/ CliEvaluateXgb
    \/ CliSaveRf
    \/ CliSaveXgb
    \/ CliSaveMeta

SpecTrain == InitTrain /\ [][NextTrain]_vars

(***************************************************************************)
(* The cadence classification of the feature extractor as a function of    *)
(* the median gap alone.  A median of integer day gaps is a whole or a     *)
(* half number of days, so the inputs are the fractions h/2.               *)
(***************************************************************************)
MaxGapDays == 400

CadenceGaps == {<<h, 2>> : h \in 0..(2 * MaxGapDays)}

InitCadence ==
    /\ pc = "input"
    /\ arg \in CadenceGaps
    /\ res = <<>>
    /\ Unused

\* _cadence_flags(_cadence_label(med_gap)), as group_features calls them
ApplyCadenceLabel ==
    /\ pc = "input"
    /\ res' = [label |-> features_cadence_label(arg),
               flags |-> _cadence_flags(features_cadence_label(arg))]
    /\ pc' = "applied"
    /\ UNCHANGED <<tx, threshold, uniq, mapping, i, j, feat, subs, today, scorer, probs,
                   X, out, labels, files, anom, app, arg>>

NextCadence == ApplyCadenceLabel

SpecCadence == InitCadence /\ [][NextCadence]_vars

(***************************************************************************)
(* anomalies.flag_amount_anomalies                                         *)
(*                                                                         *)
(* The variable anom holds the returned table: whether it has the column   *)
(* amount_anomaly, its rows, for every group the method that flagged it    *)
(* with the mean and the SQUARE of the divisor sd of the z-score, and the  *)
(* answers the isolation forests gave.                                     *)
(***************************************************************************)
FOREST_MIN == 6

ANOMALY_Z == 3

\* sd = X.std() if X.std() > 0 else 1.0, squared, as a fraction
SdSquared(a) ==
    IF VarTimesN2(a) > 0 THEN <<VarTimesN2(a), Len(a) * Len(a)>> ELSE <<1, 1>>

\* np.abs((x - mu) / sd) >= 1, a z-score test with the threshold 1
ZFlag_Z1(a, x) ==
    Flag((Len(a) * x - SumSeq(a)) * (Len(a) * x - SumSeq(a)) * SdSquared(a)[2]
            >= Len(a) * Len(a) * SdSquared(a)[1])

\* np.abs((x - mu) / sd) >= 3 with mu = sum(a) / len(a), compared on the squares:
\* (len * x - sum)^2 / len^2 >= 9 * sd^2
ZFlag(a, x) ==
    Flag((Len(a) * x - SumSeq(a)) * (Len(a) * x - SumSeq(a)) * SdSquared(a)[2]
            >= ANOMALY_Z * ANOMALY_Z * Len(a) * Len(a) * SdSquared(a)[1])

\* gg["amount_anomaly"] = flag
WithAnomaly(r, flag) ==
    [c \in DOMAIN r \cup {"amount_anomaly"} |-> IF c = "amount_anomaly" THEN flag ELSE r[c]]

\* X = gg["amount"].abs().to_numpy().reshape(-1, 1)
ForestColumn(rows, grp) == AbsAmounts(GroupRows(rows, grp))

\* the columns of the groups of a batch that are handed to a forest
ForestColumns(rows) ==
    {ForestColumn(rows, groupby(rows)[g]) :
        g \in {h \in 1..Len(groupby(rows)) : Len(groupby(rows)[h].members) >= FOREST_MIN}}

\* what fit_predict can answer on a column (1 for its -1): the forest scores a
\* row by its value, so rows of equal amount get equal flags
ForestFlags(col) ==
    {AsTuple([k \in 1..Len(col) |-> v[col[k]]]) : v \in [RangeOf(col) -> {0, 1}]}

\* IsolationForest(n_estimators=200, contamination="auto", random_state=42)
\* .fit_predict: built anew for every group and seeded with the same number, it
\* answers as a function of the column it is given, and which function is the
\* library's: any one that answers every column of the batch
IsolationForest(rows) ==
    {iso \in [ForestColumns(rows) -> UNION {ForestFlags(c) : c \in ForestColumns(rows)}] :
        \A c \in ForestColumns(rows) : iso[c] \in ForestFlags(c)}

\* one pass of the loop: the rows of a group with their flags
FlaggedGroup(rows, grp, iso) ==
    AsTuple([k \in 1..Len(grp.members) |->
        WithAnomaly(rows[grp.members[k]],
            IF Len(grp.members) >= FOREST_MIN THEN iso[ForestColumn(rows, grp)][k]
            ELSE ZFlag(AbsAmounts(GroupRows(rows, grp)), Abs(rows[grp.members[k]].amount)))])

GroupMethod(rows, grp) ==
    IF Len(grp.members) >= FOREST_MIN
    THEN [key |-> rows[grp.members[1]].merchant_norm, n |-> Len(grp.members),
          method |-> "IsolationForest", mu |-> <<0, 1>>, sd |-> <<0, 1>>]
    ELSE [key |-> rows[grp.members[1]].merchant_norm, n |-> Len(grp.members),
          method |-> "zscore", mu |-> MeanAbs(GroupRows(rows, grp)),
          sd |-> SdSquared(AbsAmounts(GroupRows(rows, grp)))]

\* pd.concat(parts, ignore_index=True)
RECURSIVE ConcatParts(_, _, _, _)
ConcatParts(rows, grps, iso, g) ==
    IF g > Len(grps) THEN <<>>
    ELSE FlaggedGroup(rows, grps[g], iso) \o ConcatParts(rows, grps, iso, g + 1)

\* the table of an empty batch is returned as it came, without the new column
flag_amount_anomalies(rows, iso) ==
    IF Len(groupby(rows)) = 0
    THEN [has_amount_anomaly |-> FALSE, rows |-> rows, groups |-> <<>>, forest |-> iso]
    ELSE [has_amount_anomaly |-> TRUE,
          rows |-> ConcatParts(rows, groupby(rows), iso, 1),
          groups |-> AsTuple([g \in 1..Len(groupby(rows)) |->
                                 GroupMethod(rows, groupby(rows)[g])]),
          forest |-> iso]

MaxAnomTx == 6

AnomDescs == { <<"N","e","t","f","l","i","x">>, <<"S","h","e","l","l">> }

AnomAmounts == {-10, 11, -40}

InitAnom ==
    /\ pc = "resolved"
    /\ \E n \in 0..MaxAnomTx :
          \E d \in [1..n -> AnomDescs], a \in [1..n -> AnomAmounts] :
             tx = resolve_merchants(DatedRows(d, [k \in 1..(n - 1) |-> 30], a))
    /\ threshold = DEFAULT_THRESHOLD
    /\ uniq = <<>> /\ mapping = EmptyMap /\ i = 0 /\ j = 0
    /\ feat = <<>> /\ subs = <<>> /\ today = 0
    /\ scorer = NoScorer /\ probs = <<>> /\ X = <<>> /\ out = <<>>
    /\ labels = <<>> /\ files = {} /\ anom = <<>> /\ app = NoApp
    /\ arg = <<>> /\ res = <<>>

FlagAmountAnomalies ==
    /\ pc = "resolved"
    /\ \E iso \in IsolationForest(tx) : anom' = flag_amount_anomalies(tx, iso)
    /\ pc' = "flagged"
    /\ UNCHANGED <<tx, threshold, uniq, mapping, i, j, feat, subs, today, scorer, probs,
                   X, out, labels, files, app, arg, res>>

NextAnom == FlagAmountAnomalies

SpecAnom == InitAnom /\ [][NextAnom]_vars

(***************************************************************************)
(* normalize_merchant as a function of one description.  The descriptions  *)
(* are long enough for the cut at 80 characters to fall before, inside and *)
(* after their last word: an optional prefix, one token of repeated        *)
(* letters, a separator and a word.                                        *)
(***************************************************************************)
NormSlack == 12

FillLengths == (KeyMaxLen - NormSlack)..KeyMaxLen

Filler(n) == AsTuple([k \in 1..n |-> "a"])

NormPrefixes == { <<>>, <<" "," ","T","h","e"," ">> }

NormSeparators == { <<" ">>, <<"-">>, <<" ","4","2"," ">>, <<"\t">>, <<"<xa0>">> }

NormWords ==
    { <<"c","o","m","p","a","n","y">>, <<"I","n","c","o","r","p","o","r","a","t","e","d">>, <<"N","E","T","F","L","I","X">>, <<"t","h","e">>, <<"p","a","y","m","e","n","t"," ","x">>,
      <<"h","t","t","p","s",":","/","/","p","a","y",".","c","o","/","x">>, <<"h","t","t","p",":","/","/","x",".","c","o">> \o <<"\t">> \o <<"n","e","t">> }

NormInputs ==
    {None, <<>>} \cup
    {p \o Filler(n) \o s \o w :
        p \in NormPrefixes, n \in FillLengths, s \in NormSeparators, w \in NormWords}

InitNorm ==
    /\ pc = "input"
    /\ arg \in NormInputs
    /\ res = <<>>
    /\ Unused

ApplyNormalize ==
    /\ pc = "input"
    /\ res' = normalize_merchant(arg)
    /\ pc' = "applied"
    /\ UNCHANGED <<tx, threshold, uniq, mapping, i, j, feat, subs, today, scorer, probs,
                   X, out, labels, files, anom, app, arg>>

NextNorm == ApplyNormalize

SpecNorm == InitNorm /\ [][NextNorm]_vars

(***************************************************************************)
(* apply_brand_lexicon on a table of one row, as a function of its         *)
(* description.  The descriptions hold up to two names, each the alias of  *)
(* a rule, a near miss of one, or no brand at all.                         *)
(***************************************************************************)
BrandNames ==
    { <<"N","e","t","f","l","i","x">>, <<"N","E","T","F","L","I","X",".","C","O","M">>, <<"H","B","O"," ","M","a","x">>, <<"m","a","x">>, <<"H","u","l","u">>, <<"S","P","O","T","I","F","Y">>,
      <<"M","a","x","i","m","u","m">>, <<"S","h","e","l","l">>, <<"h","b","o">> }

BrandSeparators == { <<" ">>, <<"*">>, <<"x">>, <<"<vt>">> }

BrandDescs ==
    {None, <<>>} \cup BrandNames \cup
    {a \o s \o b : a \in BrandNames, s \in BrandSeparators, b \in BrandNames}

OneRow(desc) ==
    << [date |-> 0, description |-> desc, amount |-> -10,
        merchant_norm |-> normalize_merchant(desc)] >>

InitBrand ==
    /\ pc = "input"
    /\ arg \in BrandDescs
    /\ res = <<>>
    /\ Unused

ApplyLexicon ==
    /\ pc = "input"
    /\ res' = apply_brand_lexicon(OneRow(arg))
    /\ pc' = "applied"
    /\ UNCHANGED <<tx, threshold, uniq, mapping, i, j, feat, subs, today, scorer, probs,
                   X, out, labels, files, anom, app, arg>>

NextBrand == ApplyLexicon

SpecBrand == InitBrand /\ [][NextBrand]_vars

(***************************************************************************)
(* Batches of several merchants, resolved and then handed to the feature   *)
(* table, the heuristic classifier or the anomaly flagger.  Each merchant  *)
(* has a count, a gap between its charges, an amount and a difference      *)
(* between its odd and even charges: up to three charges, or as many as   *)
(* the anomaly flagger hands to an isolation forest.                       *)
(***************************************************************************)
MaxPerMerchant == 3

BatchMerchants == << <<"N","e","t","f","l","i","x">>, <<"S","h","e","l","l">>, <<"G","y","m"," ","M","e","m","b","e","r","s","h","i","p">> >>

BatchGaps == {30, 50}

BatchAmounts == {-10, -300}

BatchSwings == {0, 8}

\* the merchants charged often enough for the forest
ForestProfiles == [n : {FOREST_MIN}, gap : {30}, amount : {-10}, swing : BatchSwings]

Profiles ==
    {[n |-> 0, gap |-> 30, amount |-> -10, swing |-> 0]} \cup
    [n : 1..MaxPerMerchant, gap : BatchGaps, amount : BatchAmounts, swing : BatchSwings]
    \cup ForestProfiles

MerchantRows(desc, p) ==
    AsTuple([k \in 1..p.n |->
                [date |-> p.gap * (k - 1), description |-> desc,
                 amount |-> p.amount - p.swing * (k % 2)]])

RECURSIVE BatchFrom(_, _)
BatchFrom(ps, m) ==
    IF m > Len(BatchMerchants) THEN <<>>
    ELSE MerchantRows(BatchMerchants[m], ps[m]) \o BatchFrom(ps, m + 1)

InitBatch ==
    /\ pc = "parsed"
    /\ \E ps \in [1..Len(BatchMerchants) -> Profiles] : tx = BatchFrom(ps, 1)
    /\ threshold = DEFAULT_THRESHOLD
    /\ Idle

NextBatch ==
    \/ ResolveMerchants
    \/ BuildFeatureTable
    \/ DetectRecurring
    \/ FlagAmountAnomalies

SpecBatch == InitBatch /\ [][NextBatch]_vars

(***************************************************************************)
(* parse_transactions.parse_text_to_transactions                           *)
(*                                                                         *)
(* The text is the sequence of its lines (text.splitlines()), and a line   *)
(* is a text over the ASCII characters and the bullet, which stands in the *)
(* model as the one character Bullet.  DATE_PAT and AMOUNT_PAT are applied *)
(* to the characters of the line; a place in a line counts from 1, and a   *)
(* match is given by the place where it starts and the place after its     *)
(* last character, 0 standing for no match.  A date is the triple          *)
(* <<year, month, day>> and an amount is a whole number of cents.          *)
(* dateutil reads the clock for the century of a year of two digits and    *)
(* for the parts of a date the text does not give: the clock is the        *)
(* triple now.                                                             *)
(***************************************************************************)
HEADER_KEYWORDS ==
    { <<"a","c","c","o","u","n","t"," ","h","o","l","d","e","r">>, <<"a","c","c","o","u","n","t"," ","n","u","m","b","e","r">>, <<"s","t","a","t","e","m","e","n","t"," ","p","e","r","i","o","d">>, <<"s","t","a","t","e","m","e","n","t"," ","d","a","t","e">>,
      <<"d","a","t","e"," ","d","e","s","c","r","i","p","t","i","o","n">>, <<"a","m","o","u","n","t"," ","(","$",")">>, <<"o","p","e","n","i","n","g"," ","b","a","l","a","n","c","e">>, <<"c","l","o","s","i","n","g"," ","b","a","l","a","n","c","e">>,
      <<"p","a","g","e">>, <<"s","u","b","t","o","t","a","l">>, <<"t","o","t","a","l">>, <<"s","u","m","m","a","r","y">> }

is_header_line(ln) == ContainsAny(Lower(ln), HEADER_KEYWORDS)

IsDigits(s) == s # <<>> /\ \A k \in 1..Len(s) : s[k] \in DigitSet

RECURSIVE ToNat(_)
ToNat(s) == IF s = <<>> THEN 0 ELSE 10 * ToNat(SubSeq(s, 1, Len(s) - 1)) + IndexIn(DigitSeq, s[Len(s)]) - 1

Replace(t, c, d) == AsTuple([k \in 1..Len(t) |-> IF t[k] = c THEN d ELSE t[k]])

CountOf(t, c) == Cardinality({k \in 1..Len(t) : t[k] = c})

LetterSet == LowerSet \cup UpperSet

\* the bullet of the characters that line 80 strips
Bullet == "<bullet>"

\* Python's t[a-1:b-1]: the characters from place a up to the place before b
Slice(t, a, b) == SubSeq(t, a, b - 1)

\* the place after the run of characters of S that starts at place p
RECURSIVE RunEnd(_, _, _)
RunEnd(t, p, S) == IF p <= Len(t) /\ t[p] \in S THEN RunEnd(t, p + 1, S) ELSE p

\* \b after a word character: the end of the text or a character that is none
BoundaryAt(t, e) == e > Len(t) \/ ~IsWordChar(t[e])

Bounded(t, e) == IF e # 0 /\ BoundaryAt(t, e) THEN e ELSE 0

\* \d{m,n} from place p where the pattern goes on with a character that is no
\* digit or with \b: the whole run of digits, when its length is one of lens
DigitsAt(t, p, lens) ==
    IF p = 0 THEN 0
    ELSE IF RunEnd(t, p, DigitSet) - p \in lens THEN RunEnd(t, p, DigitSet) ELSE 0

\* one character of S at place p, and one character of S or nothing
CharAt(t, p, S) == IF p # 0 /\ p <= Len(t) /\ t[p] \in S THEN p + 1 ELSE 0

OptionalAt(t, p, S) == IF p # 0 /\ p <= Len(t) /\ t[p] \in S THEN p + 1 ELSE p

MONTHS ==
    << <<"j","a","n">>, <<"f","e","b">>, <<"m","a","r">>, <<"a","p","r">>, <<"m","a","y">>, <<"j","u","n">>,
       <<"j","u","l">>, <<"a","u","g">>, <<"s","e","p">>, <<"o","c","t">>, <<"n","o","v">>, <<"d","e","c">> >>

\* (?:Jan|Feb|...|Dec)[a-z]* with re.IGNORECASE, followed by a character that is
\* no letter: the whole run of letters
MonthWordAt(t, p) ==
    IF p = 0 THEN 0
    ELSE IF /\ RunEnd(t, p, LetterSet) - p >= 3
            /\ \E m \in 1..12 : HasAt(Lower(t), p, MONTHS[m])
         THEN RunEnd(t, p, LetterSet) ELSE 0

\* \d{1,2}[/-]\d{1,2}[/-]\d{2,4}
NumericDateEnd(t, p) ==
    DigitsAt(t, CharAt(t, DigitsAt(t, CharAt(t, DigitsAt(t, p, 1..2), {"/", "-"}), 1..2),
                       {"/", "-"}), 2..4)

\* \d{4}[./-]\d{1,2}[./-]\d{1,2}
YearFirstDateEnd(t, p) ==
    DigitsAt(t, CharAt(t, DigitsAt(t, CharAt(t, DigitsAt(t, p, {4}), {".", "/", "-"}), 1..2),
                       {".", "/", "-"}), 1..2)

\* \d{1,2},?[ -]?\d{2,4} from place q, where a run of n digits starts: a run of
\* three to six digits is the day and the year together
DayAndYearEnd(t, q, n) ==
    IF q = 0 \/ n = 0 THEN 0
    ELSE IF n >= 3 THEN (IF n <= 6 THEN q + n ELSE 0)
    ELSE DigitsAt(t, OptionalAt(t, OptionalAt(t, q + n, {","}), {" ", "-"}), 2..4)

DayAndYearAt(t, q) == DayAndYearEnd(t, q, IF q = 0 THEN 0 ELSE RunEnd(t, q, DigitSet) - q)

\* month[ -]\d{1,2},?[ -]?\d{2,4}
MonthFirstDateEnd(t, p) == DayAndYearAt(t, CharAt(t, MonthWordAt(t, p), {" ", "-"}))

\* \d{1,2}[ -]month[ -]\d{2,4}
DayFirstDateEnd(t, p) ==
    DigitsAt(t, CharAt(t, MonthWordAt(t, CharAt(t, DigitsAt(t, p, 1..2), {" ", "-"})),
                       {" ", "-"}), 2..4)

\* the place after the match of DATE_PAT that starts at place p: the first of the
\* four alternatives that matches and ends at \b
DateEndAt(t, p) ==
    FoundOr(Bounded(t, NumericDateEnd(t, p)),
            FoundOr(Bounded(t, YearFirstDateEnd(t, p)),
                    FoundOr(Bounded(t, MonthFirstDateEnd(t, p)),
                            Bounded(t, DayFirstDateEnd(t, p)))))

\* the places where \b( ... can match: every alternative starts with a letter or a digit
DateStarts(t) == {p \in WordStarts(t) : DateEndAt(t, p) # 0}

\* DATE_PAT.search(ln): <<dm.start(), dm.end()>> as places, <<>> for no match
DateSpanFrom(t, starts) == IF starts = {} THEN <<>> ELSE <<LeastOf(starts), DateEndAt(t, LeastOf(starts))>>

DATE_PAT_search(t) == DateSpanFrom(t, DateStarts(t))

\* (?:\.\d{1,2}) and then \b
DecimalsEnd(t, p) ==
    IF /\ p <= Len(t) /\ t[p] = "."
       /\ RunEnd(t, p + 1, DigitSet) - (p + 1) \in 1..2
       /\ BoundaryAt(t, RunEnd(t, p + 1, DigitSet))
    THEN RunEnd(t, p + 1, DigitSet) ELSE 0

\* (?:,\d{3})*, which takes every group it can
RECURSIVE ThousandsEnd(_, _)
ThousandsEnd(t, p) ==
    IF p + 3 <= Len(t) /\ t[p] = "," /\ RunEnd(t, p + 1, DigitSet) - (p + 1) >= 3
    THEN ThousandsEnd(t, p + 4) ELSE p

\* (?P<val>\d{1,3}(?:,\d{3})*(?:\.\d{1,2})|\d+(?:\.\d{1,2})?)\b from the start v of
\* a run of digits that ends before place e
ValEndOf(t, v, e) ==
    FoundOr(IF e - v <= 3 THEN DecimalsEnd(t, ThousandsEnd(t, e)) ELSE 0,
            FoundOr(DecimalsEnd(t, e), Bounded(t, e)))

ValEnd(t, v) == ValEndOf(t, v, RunEnd(t, v, DigitSet))

\* \s* read backwards from place p
RECURSIVE SpacesBegin(_, _)
SpacesBegin(t, p) == IF p > 1 /\ t[p - 1] \in SpaceSet THEN SpacesBegin(t, p - 1) ELSE p

\* (?:USD|US\$|\$)? read backwards from place p
CurrencyBegin(t, p) ==
    IF p > 3 /\ (HasAt(t, p - 3, <<"U","S","D">>) \/ HasAt(t, p - 3, <<"U","S","$">>)) THEN p - 3
    ELSE IF p > 1 /\ t[p - 1] = "$" THEN p - 1
    ELSE p

\* (?P<sign>[-+])? read backwards from place p
SignBegin(t, p) == IF p > 1 /\ t[p - 1] \in {"-", "+"} THEN p - 1 ELSE p

\* the first place from which (?P<sign>[-+])?\s*(?:USD|US\$|\$)?\s* leads to place v:
\* finditer tries the places from left to right
MatchBeginOf(t, a, c) == SignBegin(t, IF c < a THEN SpacesBegin(t, c) ELSE a)

MatchBegin(t, v) == MatchBeginOf(t, SpacesBegin(t, v), CurrencyBegin(t, SpacesBegin(t, v)))

\* AMOUNT_PAT.finditer(ln) from place v on: a match [start, val, stop] begins at
\* start, its group val begins at val, and both end before stop
RECURSIVE AmountsFrom(_, _)
AmountsFrom(t, v) ==
    IF v > Len(t) THEN <<>>
    ELSE IF t[v] \in DigitSet /\ (v = 1 \/ t[v - 1] \notin DigitSet) /\ ValEnd(t, v) # 0
    THEN <<[start |-> MatchBegin(t, v), val |-> v, stop |-> ValEnd(t, v)]>>
            \o AmountsFrom(t, ValEnd(t, v))
    ELSE AmountsFrom(t, v + 1)

AMOUNT_PAT_finditer(t) == AmountsFrom(t, 1)

\* is_money_token: a currency sign or label, or a decimal point
is_money_token(f) ==
    \/ CountOf(f, "$") > 0
    \/ Contains(Lower(f), <<"u","s","d">>)
    \/ CountOf(f, ".") > 0

\* ams: the matches that look like money
MoneyMatches(t) ==
    SelectSeq(AMOUNT_PAT_finditer(t), LAMBDA m : is_money_token(Slice(t, m.start, m.stop)))

\* float(num_str.replace(",", "")) in cents, for digits with one or two decimals or none
CentsOf(whole, decimals) ==
    100 * ToNat(whole) + (IF Len(decimals) = 1 THEN 10 * ToNat(decimals) ELSE ToNat(decimals))

Cents(num) ==
    CentsOf(SubSeq(num, 1, RunEnd(num, 1, DigitSet) - 1),
            SubSeq(num, RunEnd(num, 1, DigitSet) + 1, Len(num)))

\* _to_float(last.group("val"), last.group("sign")), in cents
_to_float(t, m) ==
    IF t[m.start] = "-"
    THEN 0 - Cents(SelectSeq(Slice(t, m.val, m.stop), LAMBDA c : c # ","))
    ELSE Cents(SelectSeq(Slice(t, m.val, m.stop), LAMBDA c : c # ","))

MAX_MAGNITUDE == 1000000

(***************************************************************************)
(* dateutil.parser.parse(text, dayfirst=False, yearfirst=False).date() on  *)
(* the texts DATE_PAT matches: the lexer, the loop over the tokens, the    *)
(* choice of year, month and day among the values read, and the date.      *)
(* These texts hold digits, letters, the space and - / . , and no time of  *)
(* day, weekday or time zone, so the branches for those are left out.      *)
(***************************************************************************)
\* the place after the number that starts at place p: a dot, or a comma after two
\* digits or more, makes the lexer read on over digits and dots
NumberEnd(g, p, q) ==
    IF q <= Len(g) /\ (g[q] = "." \/ (g[q] = "," /\ q - p >= 2))
    THEN RunEnd(g, q + 1, DigitSet \cup {"."}) ELSE q

\* re.split("([.,])", token) without the empty pieces
RECURSIVE Pieces(_, _)
Pieces(tok, cur) ==
    IF tok = <<>> THEN (IF cur = <<>> THEN <<>> ELSE <<cur>>)
    ELSE IF Head(tok) \in {".", ","}
    THEN (IF cur = <<>> THEN <<>> ELSE <<cur>>) \o << <<Head(tok)>> >> \o Pieces(Tail(tok), <<>>)
    ELSE Pieces(Tail(tok), Append(cur, Head(tok)))

\* the tokens of what the lexer read as one number
NumberTokens(tok) ==
    IF CountOf(tok, ".") > 1 \/ tok[Len(tok)] \in {".", ","} THEN Pieces(tok, <<>>)
    ELSE IF CountOf(tok, ".") = 0 THEN <<Replace(tok, ",", ".")>>
    ELSE <<tok>>

\* _timelex.split(text)
RECURSIVE timelex(_, _)
timelex(g, p) ==
    IF p > Len(g) THEN <<>>
    ELSE IF g[p] \in LetterSet
    THEN <<Slice(g, p, RunEnd(g, p, LetterSet))>> \o timelex(g, RunEnd(g, p, LetterSet))
    ELSE IF g[p] \in DigitSet
    THEN NumberTokens(Slice(g, p, NumberEnd(g, p, RunEnd(g, p, DigitSet))))
            \o timelex(g, NumberEnd(g, p, RunEnd(g, p, DigitSet)))
    ELSE IF g[p] \in SpaceSet THEN << <<" ">> >> \o timelex(g, p + 1)
    ELSE << <<g[p]>> >> \o timelex(g, p + 1)

\* parserinfo.JUMP
JUMP ==
    { <<" ">>, <<".">>, <<",">>, <<";">>, <<"-">>, <<"/">>, <<"'">>, <<"a","t">>, <<"o","n">>, <<"a","n","d">>, <<"a","d">>,
      <<"m">>, <<"t">>, <<"o","f">>, <<"s","t">>, <<"n","d">>, <<"r","d">>, <<"t","h">> }

IsJump(tok) == Lower(tok) \in JUMP

\* parserinfo.MONTHS
MONTH_NAMES ==
    << {<<"j","a","n">>, <<"j","a","n","u","a","r","y">>}, {<<"f","e","b">>, <<"f","e","b","r","u","a","r","y">>}, {<<"m","a","r">>, <<"m","a","r","c","h">>},
       {<<"a","p","r">>, <<"a","p","r","i","l">>}, {<<"m","a","y">>}, {<<"j","u","n">>, <<"j","u","n","e">>}, {<<"j","u","l">>, <<"j","u","l","y">>},
       {<<"a","u","g">>, <<"a","u","g","u","s","t">>}, {<<"s","e","p">>, <<"s","e","p","t">>, <<"s","e","p","t","e","m","b","e","r">>}, {<<"o","c","t">>, <<"o","c","t","o","b","e","r">>},
       {<<"n","o","v">>, <<"n","o","v","e","m","b","e","r">>}, {<<"d","e","c">>, <<"d","e","c","e","m","b","e","r">>} >>

\* parserinfo.month(name), 0 for None
MonthOf(tok) ==
    IF \E m \in 1..12 : Lower(tok) \in MONTH_NAMES[m]
    THEN CHOOSE m \in 1..12 : Lower(tok) \in MONTH_NAMES[m] ELSE 0

\* float(token) succeeds: digits, or digits with one dot inside
IsNumber(tok) ==
    \/ IsDigits(tok)
    \/ /\ CountOf(tok, ".") = 1
       /\ IsDigits(Slice(tok, 1, RunEnd(tok, 1, DigitSet)))
       /\ IsDigits(SubSeq(tok, RunEnd(tok, 1, DigitSet) + 1, Len(tok)))

\* the values read so far (_ymd), the places of the value labelled as the month and
\* of the value labelled as the year (0 for none), and the time of day read
NoValues == [ok |-> TRUE, ymd |-> <<>>, mstridx |-> 0, ystridx |-> 0, hms |-> <<>>]

\* the parse after a ValueError or an IndexError
Failed == [ok |-> FALSE, ymd |-> <<>>, mstridx |-> 0, ystridx |-> 0, hms |-> <<>>]

\* _ymd.append(val, label) once the label is settled
Appended(st, v, label) ==
    IF ~st.ok THEN Failed
    ELSE IF (label = "M" /\ st.mstridx # 0) \/ (label = "Y" /\ st.ystridx # 0) THEN Failed
    ELSE [st EXCEPT !.ymd = Append(@, v),
                    !.mstridx = IF label = "M" THEN Len(st.ymd) + 1 ELSE @,
                    !.ystridx = IF label = "Y" THEN Len(st.ymd) + 1 ELSE @]

\* _ymd.append of a token: more than two digits make it the year
AppendToken(st, tok) ==
    IF ~IsDigits(tok) THEN Failed
    ELSE Appended(st, ToNat(tok), IF Len(tok) > 2 THEN "Y" ELSE "")

\* whether the number of a token is above 100
Above100(tok) ==
    \/ ToNat(Slice(tok, 1, RunEnd(tok, 1, DigitSet))) > 100
    \/ /\ ToNat(Slice(tok, 1, RunEnd(tok, 1, DigitSet))) = 100
       /\ \E k \in RunEnd(tok, 1, DigitSet)..Len(tok) : tok[k] \in DigitSet \ {"0"}

\* _ymd.append of the Decimal of a token: a value above 100 is the year
AppendValue(st, tok) ==
    Appended(st, ToNat(Slice(tok, 1, RunEnd(tok, 1, DigitSet))), IF Above100(tok) THEN "Y" ELSE "")

Goes(next, st) == [next |-> next, st |-> st]

\* the second value of a date with separators: digits, or the name of a month
SecondValue(st, tok) ==
    IF IsDigits(tok) THEN AppendToken(st, tok)
    ELSE IF MonthOf(tok) # 0 THEN Appended(st, MonthOf(tok), "M")
    ELSE Failed

ThirdValue(st, tok) ==
    IF MonthOf(tok) # 0 THEN Appended(st, MonthOf(tok), "M") ELSE AppendToken(st, tok)

\* _parse_numeric_token, the branch of a number followed by - / or .
SeparatedDate(l, n, st) ==
    IF n + 2 <= Len(l) /\ ~IsJump(l[n + 2])
    THEN IF n + 3 <= Len(l) /\ l[n + 3] = l[n + 1]
         THEN IF n + 4 > Len(l) THEN Goes(n + 1, Failed)
              ELSE Goes(n + 5, ThirdValue(SecondValue(AppendToken(st, l[n]), l[n + 2]), l[n + 4]))
         ELSE Goes(n + 3, SecondValue(AppendToken(st, l[n]), l[n + 2]))
    ELSE Goes(n + 2, AppendToken(st, l[n]))

\* _parse_numeric_token, the branch of a token of six characters: YYMMDD when no
\* value was read before it, HHMMSS otherwise
SixDigits(st, tok) ==
    IF ~IsDigits(tok) THEN Failed
    ELSE IF st.ymd = <<>>
    THEN AppendToken(AppendToken(AppendToken(st, SubSeq(tok, 1, 2)), SubSeq(tok, 3, 4)),
                     SubSeq(tok, 5, 6))
    ELSE [st EXCEPT !.hms = <<ToNat(SubSeq(tok, 1, 2)), ToNat(SubSeq(tok, 3, 4)),
                              ToNat(SubSeq(tok, 5, 6))>>]

\* _parse_numeric_token
NumericToken(l, n, st) ==
    IF Len(l[n]) = 6 THEN Goes(n + 1, SixDigits(st, l[n]))
    ELSE IF n + 1 <= Len(l) /\ l[n + 1] \in {<<"-">>, <<"/">>, <<".">>} THEN SeparatedDate(l, n, st)
    ELSE IF n + 1 > Len(l) \/ IsJump(l[n + 1]) THEN Goes(n + 1, AppendValue(st, l[n]))
    ELSE Goes(n + 1, Failed)

\* _parse, the branch of the name of a month: after - or / the next token is read
\* as a value, and the one after the same separator too
MonthToken(l, n, st) ==
    IF n + 1 <= Len(l) /\ l[n + 1] \in {<<"-">>, <<"/">>}
    THEN IF n + 2 > Len(l) THEN Goes(n + 1, Failed)
         ELSE IF n + 3 <= Len(l) /\ l[n + 3] = l[n + 1]
         THEN IF n + 4 > Len(l) THEN Goes(n + 1, Failed)
              ELSE Goes(n + 5, AppendToken(AppendToken(Appended(st, MonthOf(l[n]), "M"),
                                                       l[n + 2]), l[n + 4]))
         ELSE Goes(n + 3, AppendToken(Appended(st, MonthOf(l[n]), "M"), l[n + 2]))
    ELSE Goes(n + 1, Appended(st, MonthOf(l[n]), "M"))

\* _parse, one token: a number, the name of a month, a token to jump over, or a
\* token that is none of these, which raises
TokenStep(l, n, st) ==
    IF IsNumber(l[n]) THEN NumericToken(l, n, st)
    ELSE IF MonthOf(l[n]) # 0 THEN MonthToken(l, n, st)
    ELSE IF IsJump(l[n]) THEN Goes(n + 1, st)
    ELSE Goes(n + 1, Failed)

\* _parse, the loop over the tokens
RECURSIVE ParseTokens(_, _, _)
AfterStep(l, r) == ParseTokens(l, r.next, r.st)

ParseTokens(l, n, st) == IF ~st.ok \/ n > Len(l) THEN st ELSE AfterStep(l, TokenStep(l, n, st))

\* _ymd.resolve_ymd(yearfirst=False, dayfirst=False): the places in ymd of the
\* year, the month and the day, 0 for None; <<>> when it raises
Labels(st) == (IF st.mstridx # 0 THEN 1 ELSE 0) + (IF st.ystridx # 0 THEN 1 ELSE 0)

ResolveOne(ymd, m) ==
    IF m # 0 THEN <<0, m, 0>> ELSE IF ymd[1] > 31 THEN <<1, 0, 0>> ELSE <<0, 0, 1>>

ResolveTwo(ymd, m) ==
    IF m # 0 THEN (IF ymd[3 - m] > 31 THEN <<3 - m, m, 0>> ELSE <<0, m, 3 - m>>)
    ELSE IF ymd[1] > 31 THEN <<1, 2, 0>>
    ELSE IF ymd[2] > 31 THEN <<2, 1, 0>>
    ELSE <<0, 1, 2>>

ResolveThree(ymd, m, y) ==
    IF m = 1 THEN (IF ymd[2] > 31 THEN <<2, 1, 3>> ELSE <<3, 1, 2>>)
    ELSE IF m = 2 THEN (IF ymd[1] > 31 THEN <<1, 2, 3>> ELSE <<3, 2, 1>>)
    ELSE IF m = 3 THEN (IF ymd[2] > 31 THEN <<2, 3, 1>> ELSE <<1, 3, 2>>)
    ELSE IF ymd[1] > 31 \/ y = 1 THEN <<1, 2, 3>>
    ELSE IF ymd[1] > 12 THEN <<3, 2, 1>>
    ELSE <<3, 1, 2>>

resolve_ymd(st) ==
    IF Len(st.ymd) = Labels(st) /\ Len(st.ymd) > 0 THEN <<st.ystridx, st.mstridx, 0>>
    ELSE IF Len(st.ymd) = 3 /\ Labels(st) = 2
    THEN <<st.ystridx, st.mstridx, 6 - st.mstridx - st.ystridx>>
    ELSE IF Len(st.ymd) > 3 THEN <<>>
    ELSE IF Len(st.ymd) = 3 THEN ResolveThree(st.ymd, st.mstridx, st.ystridx)
    ELSE IF Len(st.ymd) = 2 THEN ResolveTwo(st.ymd, st.mstridx)
    ELSE IF Len(st.ymd) = 1 THEN ResolveOne(st.ymd, st.mstridx)
    ELSE <<0, 0, 0>>

\* parserinfo.convertyear: a year below 100 without its century is put within
\* fifty years of the year of the clock
InCentury(year, this) ==
    IF year >= this + 50 THEN year - 100
    ELSE IF year < this - 50 THEN year + 100
    ELSE year

convertyear(year, century_specified, this) ==
    IF year < 100 /\ ~century_specified
    THEN InCentury(year + (this \div 100) * 100, this)
    ELSE year

DAYS_IN_MONTH == <<31, 28, 31, 30, 31, 30, 31, 31, 30, 31, 30, 31>>

IsLeap(y) == (y % 4 = 0 /\ y % 100 # 0) \/ y % 400 = 0

\* calendar.monthrange(y, m)[1]
DaysIn(y, m) == DAYS_IN_MONTH[m] + (IF m = 2 /\ IsLeap(y) THEN 1 ELSE 0)

\* datetime.replace(year, month, day, hour, minute, second) does not raise
ValidDate(y, m, d) ==
    /\ y >= 1 /\ y <= 9999
    /\ m >= 1 /\ m <= 12
    /\ d >= 1 /\ d <= DaysIn(y, m)

ValidTime(hms) == hms = <<>> \/ (hms[1] <= 23 /\ hms[2] <= 59 /\ hms[3] <= 59)

\* parser._build_naive(...).date(): a part the text does not give is the part of the
\* clock, the day of the clock cut down to the last day of the month
DateOf(y, m, d, hms) == IF ValidDate(y, m, d) /\ ValidTime(hms) THEN <<y, m, d>> ELSE <<>>

BuiltWith(y, m, ymd, dplace, hms, now) ==
    IF m < 1 \/ m > 12 THEN <<>>
    ELSE DateOf(y, m, IF dplace # 0 THEN ymd[dplace] ELSE Min(now[3], DaysIn(y, m)), hms)

Built(st, r, now) ==
    IF r = <<>> THEN <<>>
    ELSE BuiltWith(IF r[1] # 0 THEN convertyear(st.ymd[r[1]], st.ystridx # 0, now[1]) ELSE now[1],
                   IF r[2] # 0 THEN st.ymd[r[2]] ELSE now[2],
                   st.ymd, r[3], st.hms, now)

Resolved(st, now) == IF ~st.ok THEN <<>> ELSE Built(st, resolve_ymd(st), now)

\* dtparse(dm.group(0), dayfirst=False, yearfirst=False).date(): the triple, or <<>>
\* where dateutil raises
dtparse(g, now) == Resolved(ParseTokens(timelex(g, 1), 1, NoValues), now)

\* desc: the line without the match of the date and the match of the amount, the
\* characters of line 80 stripped from its ends
STRIPPED == {" ", "-", ":", "|", Bullet, "\t"}

RECURSIVE LStripOf(_, _)
LStripOf(t, S) == IF t # <<>> /\ Head(t) \in S THEN LStripOf(Tail(t), S) ELSE t

RECURSIVE RStripOf(_, _)
RStripOf(t, S) ==
    IF t # <<>> /\ t[Len(t)] \in S THEN RStripOf(SubSeq(t, 1, Len(t) - 1), S) ELSE t

OrTransaction(desc) == IF desc = <<>> THEN <<"T","r","a","n","s","a","c","t","i","o","n">> ELSE desc

DescriptionOf(ln, dm, last) ==
    OrTransaction(RStripOf(LStripOf(Slice(ln, 1, dm[1]) \o Slice(ln, dm[2], last.start)
                                       \o Slice(ln, last.stop, Len(ln) + 1), STRIPPED),
                           STRIPPED))

RecordOf(ln, dm, last, d) ==
    [date |-> d,
     description |-> DescriptionOf(ln, dm, last),
     amount |-> _to_float(ln, last),
     currency |-> "USD",
     type |-> IF _to_float(ln, last) < 0 THEN "debit" ELSE "credit"]

\* one pass of the loop over the lines: the record of the line, unless one of the
\* tests skips it
\* the digits of the amount before its point, without commas and leading zeros
WholeDigits(num) == LStripOf(SubSeq(num, 1, RunEnd(num, 1, DigitSet) - 1), {"0"})

\* abs(amt) > 1_000_000: an amount of eight digits or more before the point is
\* above it whatever its digits are
AboveMagnitude(ln, last) ==
    \/ Len(WholeDigits(SelectSeq(Slice(ln, last.val, last.stop), LAMBDA c : c # ","))) > 7
    \/ Abs(_to_float(ln, last)) > 100 * MAX_MAGNITUDE

WithDate(ln, dm, last, d) ==
    IF AboveMagnitude(ln, last) \/ d = <<>> THEN <<>>
    ELSE <<RecordOf(ln, dm, last, d)>>

WithAmount(ln, dm, ams, now) ==
    IF ams = <<>> THEN <<>>
    ELSE WithDate(ln, dm, ams[Len(ams)], dtparse(Slice(ln, dm[1], dm[2]), now))

WithMatch(ln, dm, now) == IF dm = <<>> THEN <<>> ELSE WithAmount(ln, dm, MoneyMatches(ln), now)

LineRecord(ln, now) ==
    IF ln = <<>> \/ is_header_line(ln) THEN <<>> ELSE WithMatch(ln, DATE_PAT_search(ln), now)

ParsedLine(raw, now) == LineRecord(Strip(raw), now)

RECURSIVE RecordsFrom(_, _, _)
RecordsFrom(lines, k, now) ==
    IF k > Len(lines) THEN <<>> ELSE ParsedLine(lines[k], now) \o RecordsFrom(lines, k + 1, now)

DateLess(a, b) ==
    \/ a[1] < b[1]
    \/ a[1] = b[1] /\ a[2] < b[2]
    \/ a[1] = b[1] /\ a[2] = b[2] /\ a[3] < b[3]

\* the printable characters of a line in the order of their code points, from the space on;
\* the grave accent, which no text of the model holds, is written by its name
PRINTABLE ==
    <<" ","!">> \o <<"\"">> \o <<"#","$","%","&","'","(",")","*","+",",","-",".","/","0","1","2","3","4","5","6","7","8","9",":",";","<","=",">","?","@">> \o UpperSeq \o <<"[">> \o <<"\\">>
        \o <<"]","^","_">> \o <<"<grave>">> \o LowerSeq \o <<"{","|","}","~">>

\* ord(c)
CodePoint(c) ==
    IF c = Bullet THEN 8226
    ELSE IF c \in SpaceSet THEN WHITESPACE_CODES[IndexIn(WHITESPACE, c)]
    ELSE 31 + IndexIn(PRINTABLE, c)

\* Python's s < t on two descriptions
RECURSIVE LineLess(_, _)
LineLess(s, t) ==
    IF t = <<>> THEN FALSE
    ELSE IF s = <<>> THEN TRUE
    ELSE IF Head(s) # Head(t) THEN CodePoint(Head(s)) < CodePoint(Head(t))
    ELSE LineLess(Tail(s), Tail(t))

\* sort_values(["date", "description"])
ParsedBefore(a, b) ==
    \/ DateLess(a.date, b.date)
    \/ a.date = b.date /\ LineLess(a.description, b.description)

RECURSIVE InsertParsed(_, _)
InsertParsed(s, r) ==
    IF s = <<>> THEN <<r>>
    ELSE IF ParsedBefore(r, Head(s)) THEN <<r>> \o s
    ELSE <<Head(s)>> \o InsertParsed(Tail(s), r)

RECURSIVE SortParsed(_)
SortParsed(s) ==
    IF s = <<>> THEN <<>> ELSE InsertParsed(SortParsed(SubSeq(s, 1, Len(s) - 1)), s[Len(s)])

\* the characters at which str.splitlines() ends a line
LINE_BREAKS ==
    {"\n", "\r", "<vt>", "\f", "<x1c>", "<x1d>", "<x1e>", "<x85>", "<u2028>", "<u2029>"}

\* the places where a line break ends: a carriage return right before a line feed
\* makes one break with it
BreakEnds(t) ==
    {p \in 1..Len(t) :
        t[p] \in LINE_BREAKS /\ ~(t[p] = "\r" /\ p < Len(t) /\ t[p + 1] = "\n")}

\* the places where a line starts; no line starts after the last break
LineStarts(t) ==
    {p \in 1..Len(t) : p = 1 \/ (p - 1) \in BreakEnds(t)}

\* the line that starts at p, without its break
LineAt(t, p) == Slice(t, p, RunEnd(t, p, {c \in RangeOf(t) : c \notin LINE_BREAKS}))

Ascending(S) ==
    AsTuple([k \in 1..Cardinality(S) |-> CHOOSE p \in S : Cardinality({q \in S : q < p}) = k - 1])

LinesAt(t, starts) == AsTuple([k \in 1..Len(starts) |-> LineAt(t, starts[k])])

\* text.splitlines()
splitlines(t) == LinesAt(t, Ascending(LineStarts(t)))

\* (text or "").splitlines(), the loop over the lines, and the sorted frame
parse_text_to_transactions(text, now) ==
    SortParsed(RecordsFrom(splitlines(OrEmpty(text)), 1, now))

\* pd.to_datetime(df["date"]) holds a date in nanoseconds since 1970 in 64 bits
\* where the build of pandas takes that unit: a date outside these two raises
TIMESTAMP_MIN == <<1677, 9, 22>>

TIMESTAMP_MAX == <<2262, 4, 11>>

OutOfBounds(d) == DateLess(d, TIMESTAMP_MIN) \/ DateLess(TIMESTAMP_MAX, d)

HasOutOfBounds(recs) == \E k \in 1..Len(recs) : OutOfBounds(recs[k].date)

MaxLines == 2

\* pieces of the lines of a text: a date or none, words, an amount or none
LineDates ==
    { <<"0","2","-","A","u","g","-","2","0","2","5">>, <<"3","1","-","F","e","b","-","2","0","2","5">>, <<"1","/","2","/","2","5">>, <<"J","a","n"," ","1","2",",","2","0","2","5">>, <<"S","e","p","t"," ","1","2","2","5">>, <<"A","u","g">> }

LineWords == { <<"N","e","t","f","l","i","x">>, <<"-"," ","G","y","m"," ","C","l","u","b",":">>, <<"T","o","t","a","l"," ","W","i","n","e">> }

LineAmounts == { <<"1","5",".","9","9">>, <<"-","9",".","9","9">>, <<"$","1",",","2","5","0">>, <<"1","5">>, <<"2","0","0","0","0","0","0",".","0","0">>, <<>> }

SpacedJoin(a, b) == IF a = <<>> THEN b ELSE IF b = <<>> THEN a ELSE a \o <<" ">> \o b

Lines ==
    { <<>>, <<"S","t","a","t","e","m","e","n","t"," ","P","e","r","i","o","d",":"," ","0","1","-","A","u","g","-","2","0","2","5"," ","t","o"," ","3","1","-","A","u","g","-","2","0","2","5">>,
      <<"U","S","D"," ","5"," ","o","n"," ","2","0","2","5",".","1",".","1","2"," ","H","u","l","u">>, <<"\t", Bullet>> \o <<" ","9"," ","D","e","c"," ","9","9"," ","G","y","m","-","4",".","5","0">>,
      <<"<xa0>">> \o <<"1","/","2","/","2","5">> \o <<"<x1f>">> \o <<"H","u","l","u">> \o <<"<u2003>">> \o <<"7",".","9","9">> \o <<"<u3000>">>,
      <<"1","/","2","/","2","5"," ","H","u","l","u">> \o <<"<vt>">> \o <<"7",".","9","9">>,
      <<"3","/","4","/","2","5"," ","G","y","m"," ","5">> \o <<"\r", "\n">> \o <<"3","/","4","/","2","5"," ","a">> \o <<"<xa0>">> \o <<"b"," ","6">> } \cup
    { SpacedJoin(d, SpacedJoin(w, a)) : d \in LineDates, w \in LineWords, a \in LineAmounts }

\* the text of the given lines, each ended by a line feed
RECURSIVE TextOf(_)
TextOf(lines) == IF lines = <<>> THEN <<>> ELSE Head(lines) \o <<"\n">> \o TextOf(Tail(lines))

\* the dates the clock shows
Clocks == { <<2026, 10, 30>>, <<2024, 1, 31>> }

InitParse ==
    /\ pc = "input"
    /\ \/ arg = None
       \/ \E n \in 0..MaxLines : \E lines \in [1..n -> Lines] : arg = TextOf(lines)
    /\ today \in Clocks
    /\ res = <<>>
    /\ tx = <<>> /\ threshold = 0
    /\ uniq = <<>> /\ mapping = EmptyMap /\ i = 0 /\ j = 0
    /\ feat = <<>> /\ subs = <<>>
    /\ scorer = NoScorer /\ probs = <<>> /\ X = <<>> /\ out = <<>>
    /\ labels = <<>> /\ files = {} /\ anom = <<>> /\ app = NoApp

\* the call returns the frame
ParseText ==
    /\ pc = "input"
    /\ res' = parse_text_to_transactions(arg, today)
    /\ pc' = "applied"
    /\ UNCHANGED <<tx, threshold, uniq, mapping, i, j, feat, subs, today, scorer, probs,
                   X, out, labels, files, anom, app, arg>>

\* the call raises at line 94: OutOfBoundsDatetime, in a build of pandas that holds
\* dates in nanoseconds
ParseRaises ==
    /\ pc = "input"
    /\ HasOutOfBounds(parse_text_to_transactions(arg, today))
    /\ pc' = "raised"
    /\ UNCHANGED <<tx, threshold, uniq, mapping, i, j, feat, subs, today, scorer, probs,
                   X, out, labels, files, anom, app, arg, res>>

NextParse == ParseText \/ ParseRaises

SpecParse == InitParse /\ [][NextParse]_vars

(***************************************************************************)
(* Properties of recurring.detect_recurring_subscriptions and of           *)
(* anomalies.flag_missed_cycles, checked under SpecHeur.                   *)
(***************************************************************************)
Detected == pc \in {"detected", "flagged"}

\* the transactions of the batch that carry the key, in date order
RowsOfKey(key) == SortByDate(SelectSeq(tx, LAMBDA r : r.merchant_norm = key))

SumOfSquares(a) == SumSeq(AsTuple([k \in 1..Len(a) |-> a[k] * a[k]]))

\* std / mean <= 1/4 for a positive mean, written without the division:
\* 16 * (n * sum of squares - square of the sum) <= square of the sum
StableAmounts(a, total) ==
    /\ total > 0
    /\ 16 * (Len(a) * SumOfSquares(a) - total * total) <= total * total

C1Row(r, g) ==
    /\ r.is_recurring = TRUE <=>
          /\ Len(g) >= 3
          /\ StableAmounts(AbsAmounts(g), SumSeq(AbsAmounts(g)))
          /\ r.cadence \in {"weekly", "biweekly", "monthly", "yearly"}
    /\ Len(g) < 3 => r.is_recurring = FALSE
    /\ r.cadence = "quarterly" => r.is_recurring = FALSE
    /\ r.count = Len(g)

\* C1: a merchant group is recurring exactly when it has at least three
\* transactions, the coefficient of variation of its absolute amounts is at most
\* 0.25, and its cadence label is weekly, biweekly, monthly or yearly; a group of
\* fewer than three transactions and a quarterly group are never recurring.
C1_RecurringIff ==
    Detected => \A k \in 1..Len(subs) : C1Row(subs[k], RowsOfKey(subs[k].merchant_norm))

\* a recurring group of unequal amounts, next to a steady group that is not recurring
C1_Witness ==
    /\ Detected
    /\ \E k \in 1..Len(subs) :
          subs[k].is_recurring /\ subs[k].count >= 3 /\ subs[k].cv > 0

C2Row(r, g) ==
    /\ r.is_subscription = TRUE <=>
          /\ r.is_recurring = TRUE
          /\ \/ \E k \in 1..Len(g) : g[k].brand # NoValue
             \/ \E w \in HINTS : Contains(DescBlob(g), w)
             \/ /\ 4 * Len(g) <= SumSeq(AbsAmounts(g))
                /\ SumSeq(AbsAmounts(g)) <= 250 * Len(g)
                /\ r.cadence = "monthly"
    /\ r.is_subscription = TRUE => r.is_recurring = TRUE

\* C2: a group is a subscription exactly when it is recurring and it has a brand
\* hit, or a hint word in its descriptions, or a mean absolute amount between 4 and
\* 250 together with the monthly cadence; a group that is not recurring is never a
\* subscription.
C2_SubscriptionIff ==
    Detected => \A k \in 1..Len(subs) : C2Row(subs[k], RowsOfKey(subs[k].merchant_norm))

\* a monthly group without brand or hint word that is a subscription on the amount
\* band alone
C2_Witness ==
    /\ Detected
    /\ \E k \in 1..Len(subs) :
          /\ subs[k].is_subscription /\ subs[k].cadence = "monthly"
          /\ subs[k].brand = NoValue
          /\ ~Hint(RowsOfKey(subs[k].merchant_norm))

\* the days of a cadence, as the specification lists them
CycleDays(cadence) ==
    CASE cadence = "weekly" -> 7
      [] cadence = "biweekly" -> 14
      [] cadence = "monthly" -> 30
      [] cadence = "yearly" -> 365

\* today > last_date + 1.5 * days, in half days
C3Row(r, now) ==
    /\ r.missed_cycle = 1 <=>
          /\ r.is_subscription = TRUE
          /\ 2 * (now - r.last_date) > 3 * CycleDays(r.cadence)
    /\ r.missed_cycle \in {0, 1}

\* C3: missed_cycle is 1 exactly for a subscription whose last date lies more than
\* 1.5 times its cadence days before today, also for a cadence whose 1.5-fold is
\* not a whole number of days; for every other row it is 0.
C3_MissedCycleIff ==
    pc = "flagged" => \A k \in 1..Len(subs) : C3Row(subs[k], today)

\* a weekly subscription seen 11 days ago (10.5 days of grace) is flagged
C3_Witness ==
    /\ pc = "flagged"
    /\ \E k \in 1..Len(subs) :
          /\ subs[k].is_subscription /\ subs[k].cadence = "weekly"
          /\ today - subs[k].last_date = 11
          /\ subs[k].missed_cycle = 1

(***************************************************************************)
(* Properties of merchant_resolver.soft_group and of the grouping by       *)
(* merchant key, checked under SpecGroup.                                  *)
(***************************************************************************)
LoopsDone == pc \in {"grouped", "resolved", "features"}

\* the key a transaction has before the merging
RawKey(k) == normalize_merchant(tx[k].description)

\* the position at which a key is first seen in the batch
FirstSeen(key) ==
    CHOOSE p \in 1..Len(tx) :
        RawKey(p) = key /\ \A q \in 1..(p - 1) : RawKey(q) # key

\* the position in keys of the representative of keys[k]: the earliest key before
\* it that is its own representative and sufficiently similar, else k itself
RECURSIVE RepIndex(_, _, _), Attracts(_, _, _, _)
RepIndex(keys, th, k) ==
    IF \E q \in 1..(k - 1) : Attracts(keys, th, q, k)
    THEN CHOOSE q \in 1..(k - 1) :
            Attracts(keys, th, q, k) /\ \A p \in 1..(q - 1) : ~Attracts(keys, th, p, k)
    ELSE k

\* whether keys[q] is a representative that keys[k] is sufficiently similar to
Attracts(keys, th, q, k) ==
    keys[q] # <<>> /\ RepIndex(keys, th, q) = q /\ Similar(keys[q], keys[k], th)

\* C4: soft_group goes through the distinct keys in first-seen order; a key not
\* yet assigned becomes a representative, and every later key is assigned to the
\* earliest-seen representative it is sufficiently similar to.
C4_EarliestRepresentativeWins ==
    LoopsDone =>
        /\ RangeOf(uniq) = {RawKey(k) : k \in 1..Len(tx)}
        /\ \A a, b \in 1..Len(uniq) :
              a < b => uniq[a] # uniq[b] /\ FirstSeen(uniq[a]) < FirstSeen(uniq[b])
        /\ DOMAIN mapping = RangeOf(uniq) \ {<<>>}
        /\ \A k \in 1..Len(uniq) :
              uniq[k] # <<>> => mapping[uniq[k]] = uniq[RepIndex(uniq, threshold, k)]

\* a key similar to two representatives is assigned to the one seen first
C4_Witness ==
    /\ LoopsDone
    /\ \E k \in 1..Len(uniq) : \E a, b \in 1..(k - 1) :
          /\ a < b /\ uniq[k] # <<>> /\ uniq[a] # <<>> /\ uniq[b] # <<>>
          /\ mapping[uniq[a]] = uniq[a] /\ mapping[uniq[b]] = uniq[b]
          /\ Similar(uniq[a], uniq[k], threshold)
          /\ Similar(uniq[b], uniq[k], threshold)
          /\ mapping[uniq[k]] = uniq[a]

\* the groups that hold transaction k
GroupsHolding(grps, k) == {g \in 1..Len(grps) : k \in RangeOf(grps[g].members)}

GroupSizes(grps) == AsTuple([g \in 1..Len(grps) |-> Len(grps[g].members)])

FeatCounts(ft) == AsTuple([g \in 1..Len(ft) |-> ft[g].count])

C5Partition(grps) ==
    /\ \A k \in 1..Len(tx) :
          /\ tx[k].merchant_norm # None
          /\ Cardinality(GroupsHolding(grps, k)) = 1
    /\ \A g, h \in 1..Len(grps) :
          g # h => RangeOf(grps[g].members) \cap RangeOf(grps[h].members) = {}
    /\ SumSeq(GroupSizes(grps)) = Len(tx)
    /\ Len(feat) = Len(grps)
    /\ \A g \in 1..Len(grps) :
          /\ feat[g].merchant_norm = grps[g].key
          /\ feat[g].count = Len(grps[g].members)
          /\ \A k \in RangeOf(grps[g].members) : tx[k].merchant_norm = grps[g].key
    /\ SumSeq(FeatCounts(feat)) = Len(tx)

\* C5: after resolve_merchants every transaction carries one merchant key, and
\* the grouping by that key puts every transaction into exactly one group: the
\* groups are disjoint, none is lost, and their counts add up to the batch size.
C5_GroupsPartitionBatch == pc = "features" => C5Partition(groupby(tx))

\* a batch of three with a merged pair and a transaction of empty key
C5_Witness ==
    /\ pc = "features"
    /\ Len(tx) = 3
    /\ Len(feat) = 2
    /\ \E k \in 1..Len(tx) : tx[k].merchant_norm = <<>>
    /\ \E k \in 1..Len(tx) : tx[k].merchant_norm # RawKey(k)

\* C6: two unrelated transactions whose keys are empty are not put into one
\* merchant group.
C6_EmptyKeysKeptApart ==
    pc = "features" =>
        \A a, b \in 1..Len(tx) :
            /\ a # b
            /\ tx[a].description # tx[b].description
            /\ RawKey(a) = <<>>
            /\ RawKey(b) = <<>>
            => GroupsHolding(groupby(tx), a) \cap GroupsHolding(groupby(tx), b) = {}

\* C7: soft_group assigns no representative to the empty key and assigns the
\* empty key to no key, whatever the threshold: a transaction has an empty key
\* after the merging exactly when it had one before.
C7_EmptyKeyNeverMapped ==
    /\ <<>> \notin DOMAIN mapping
    /\ \A k \in DOMAIN mapping : mapping[k] # <<>>
    /\ LoopsDone =>
          \A k \in 1..Len(tx) : tx[k].merchant_norm = <<>> <=> RawKey(k) = <<>>

\* with threshold 0 every pair of keys is similar enough, and the empty key and a
\* merged pair of other keys are in the batch
C7_Witness ==
    /\ LoopsDone
    /\ threshold = 0
    /\ <<>> \in RangeOf(uniq)
    /\ \E k \in DOMAIN mapping : mapping[k] # k

(***************************************************************************)
(* Properties of score_subs.SubscriptionScorer, checked under SpecScore.   *)
(***************************************************************************)
Aligned == pc \in {"scored", "score_failed", "predict_failed"}

\* the feature table score() hands to _align_features
C8Table == build_feature_table(tx)

C8Row(x, f, schema) ==
    /\ Len(x) = Len(schema)
    /\ \A c \in 1..Len(schema) :
          IF schema[c] \in DOMAIN f THEN x[c] = f[schema[c]] ELSE x[c] = 0

\* the table after the call: its columns kept, the missing ones of the schema added as 0
C8Written(g, f, schema) ==
    /\ DOMAIN g = (DOMAIN f) \cup RangeOf(schema)
    /\ \A c \in DOMAIN g : g[c] = IF c \in DOMAIN f THEN f[c] ELSE 0

\* C8: the aligned matrix has exactly the columns of the training schema, in the
\* order of the schema; a schema column the feature table lacks is filled with 0,
\* a column of the table the schema lacks is dropped, and nothing fails for a
\* missing column.  The caller's table keeps its columns and gains the missing ones.
C8_AlignedToSchema ==
    Aligned =>
        \A table \in {C8Table} :
            /\ Len(X) = Len(table)
            /\ Len(feat) = Len(table)
            /\ \A r \in 1..Len(X) :
                  /\ C8Row(X[r], table[r], scorer.meta_features)
                  /\ C8Written(feat[r], table[r], scorer.meta_features)

\* a scored batch whose schema names a column the table lacks and leaves out
\* columns the table has
C8_Witness ==
    /\ pc = "scored"
    /\ \E c \in 1..Len(scorer.meta_features) :
          /\ scorer.meta_features[c] \notin DOMAIN C8Table[1]
          /\ X[1][c] = 0
          /\ feat[1][scorer.meta_features[c]] = 0
    /\ \E col \in DOMAIN C8Table[1] : col \notin RangeOf(scorer.meta_features)

\* the row of the scorer's table for a merchant key
OutRow(key) == CHOOSE o \in RangeOf(out) : o.merchant_norm = key

\* a block word in the key, and neither brand nor brand hit nor hint word
C9Blocked(f) ==
    /\ \E w \in RangeOf(BLOCK_WORDS) : Contains(f.merchant_norm, w)
    /\ \A k \in 1..Len(tx) : tx[k].merchant_norm = f.merchant_norm => tx[k].brand = NoValue
    /\ f.brand_hit = 0
    /\ f.hint_flag = 0

C9Row(f, p, o, th) ==
    IF C9Blocked(f)
    THEN o.prob = Damped(p) /\ DAMPING[2] * o.prob[1] = DAMPING[1] * Kept(p)[1] /\ o.is_subscription = 0
    ELSE o.prob = Kept(p) /\ (o.is_subscription = 1 <=> p >= th) /\ o.is_subscription \in {0, 1}

\* C9: a candidate whose key holds a block word and that has no brand, no brand
\* hit and no hint word gets 0.2 times the model's probability and is no
\* subscription; every other candidate keeps the probability and the threshold
\* decision.
C9_PostFilter ==
    pc = "scored" =>
        /\ Len(out) = Len(feat)
        /\ \A r \in 1..Len(feat) :
              /\ Cardinality({k \in 1..Len(out) : out[k].merchant_norm = feat[r].merchant_norm}) = 1
              /\ C9Row(feat[r], probs[r], OutRow(feat[r].merchant_norm), scorer.threshold)

\* a blocked candidate that the threshold alone would accept, next to a candidate
\* with a block word in its key that its brand keeps
C9_Witness ==
    /\ pc = "scored"
    /\ \E a, b \in 1..Len(feat) :
          /\ C9Blocked(feat[a])
          /\ probs[a] >= scorer.threshold
          /\ OutRow(feat[a].merchant_norm).is_subscription = 0
          /\ BLOCK_PATTERN(feat[b].merchant_norm)
          /\ feat[b].brand_hit = 1
          /\ OutRow(feat[b].merchant_norm).is_subscription = 1

\* the keys the scorer's table marks as subscriptions
SubscriptionsOf(table) ==
    {table[k].merchant_norm : k \in {n \in 1..Len(table) : table[n].is_subscription = 1}}

\* the thresholds compared with the scorer's one
HigherThresholds(th) == {t \in ScoreThresholds \cup ProbChoices : t > th}

\* C10: for the same probabilities, a higher threshold marks no candidate as a
\* subscription that the lower threshold does not mark.
C10_ThresholdMonotone ==
    pc = "scored" =>
        \A t \in HigherThresholds(scorer.threshold) :
            SubscriptionsOf(ScoredRows(tx, groupby(tx), feat, probs, t)) \subseteq SubscriptionsOf(out)

\* a candidate that is a subscription at the scorer's threshold and none at a
\* higher one
C10_Witness ==
    /\ pc = "scored"
    /\ \E t \in HigherThresholds(scorer.threshold) :
          /\ SubscriptionsOf(out) # {}
          /\ SubscriptionsOf(ScoredRows(tx, groupby(tx), feat, probs, t)) # SubscriptionsOf(out)

(***************************************************************************)
(* Properties of the dashboard's run, checked under SpecApp.               *)
(***************************************************************************)
\* a model file the constructors need is missing
ModelFileMissing == ~app.rf_exists \/ ~app.xgb_exists

\* the positions of a run after the try block
AfterTry == {"app_scored", "app_heuristics", "shown"}

\* the first constructor finds its file and joblib.load raises on it
RfUnreadable == app.rf_exists /\ ~app.rf_loads

\* C11: without the model file the constructor raises FileNotFoundError with no
\* model and no metadata loaded; the dashboard then shows the heuristic
\* candidates instead of failing, and it computes the heuristic candidates on
\* every run, whether or not the model scored.  (When rf_subscription.pkl is
\* there and joblib.load raises on it, that exception comes before the missing
\* xgb_subscription.pkl is looked for; the dashboard falls back all the same,
\* as it does when score() raises.  The files are those of a run during which
\* no other session wrote into the directory; whenever FileNotFoundError was
\* raised, in such a run or another, no model was used.)
C11_MissingModelFallsBack ==
    /\ \A m \in AppMetaChoices :
          /\ SubscriptionScorer(FALSE, m, XGB_THRESHOLD).raised = "FileNotFoundError"
          /\ SubscriptionScorer(FALSE, m, XGB_THRESHOLD).model = NoValue
          /\ SubscriptionScorer(FALSE, m, XGB_THRESHOLD).meta = <<"unread">>
    /\ (pc \in AfterTry /\ ~app.disturbed /\ TriesModel(app) /\ ModelFileMissing)
          => /\ app.raised = IF RfUnreadable THEN "LoadError" ELSE "FileNotFoundError"
             /\ app.used_mode = "heuristic"
             /\ ~app.subs_ml.present
             /\ scorer = NoScorer /\ out = <<>>
    /\ (pc \in AfterTry /\ app.raised = "FileNotFoundError")
          => /\ app.used_mode = "heuristic"
             /\ ~app.subs_ml.present
             /\ scorer = NoScorer /\ out = <<>>
    /\ pc = "shown" =>
          /\ subs = flag_missed_cycles(detect_recurring_subscriptions(tx), today)
          /\ ((~app.disturbed /\ ModelFileMissing) \/ app.raised # NoValue) =>
                app.main_subs = [source |-> "heuristic", rows |-> AssignScore(subs)]

\* a run with only one of the two model files that ends showing the heuristic
\* candidates of its batch
C11_Witness ==
    /\ pc = "shown"
    /\ ~app.disturbed
    /\ app.xgb_exists /\ app.xgb_loads /\ ~app.rf_exists
    /\ app.raised = "FileNotFoundError"
    /\ app.main_subs.source = "heuristic"
    /\ Len(app.main_subs.rows) > 0

\* the metadata records whose feature list cannot be used: empty, or not a list
UnusableMeta == {<<>>, <<"not_a_list">>}

\* C12: a metadata record whose feature list is unusable (empty, or not a list)
\* does not leave a usable scorer whose schema is the default feature order with
\* neither an error nor a logged message.
C12_UnusableMetadataRefused ==
    ~ /\ scorer.meta \in UnusableMeta
      /\ scorer.model = "loaded"
      /\ scorer.raised = NoValue
      /\ scorer.log = <<>>
      /\ scorer.meta_features = FEATURES

(***************************************************************************)
(* Properties of the training path, checked under SpecTrain.               *)
(***************************************************************************)
Prepared == pc \notin {"parsed", "train_key_error", "cli_no_transactions"}

\* C13: when the weak labels of the batch are of one class, training stops with
\* an error before a model is fitted and before an artifact is written: the
\* models directory is as it was.  The command line trainer stops there too.
C13_SingleClassWritesNothing ==
    (Prepared /\ Cardinality({labels[k] : k \in 1..Len(labels)}) = 1) =>
        /\ pc \in {"train_single_class", "cli_single_class"}
        /\ files \in {NoFiles, OldFiles}
        /\ \A n \in DOMAIN files : files[n] = "old"

\* a batch of two groups with equal labels, and the artifacts of an earlier
\* training untouched
C13_Witness ==
    /\ pc = "train_single_class"
    /\ Len(labels) = 2
    /\ labels[1] = labels[2]
    /\ files = OldFiles

(***************************************************************************)
(* Properties of weak_labels.weak_label, checked under SpecWeak.           *)
(***************************************************************************)
\* 20 * cv <= 7, on the square of the coefficient of variation
CvAtMost035(cv2) == 400 * cv2[1] <= 49 * cv2[2]

C14Label(f) ==
    /\ f.mean_amt[1] >= f.mean_amt[2] /\ f.mean_amt[1] <= 300 * f.mean_amt[2]
    /\ f.brand_hit = 1 \/ f.hint_flag = 1
    /\ \A k \in 1..Len(NEGATIVE_MERCHANTS) : ~Contains(f.merchant_norm, NEGATIVE_MERCHANTS[k])
    /\ \/ f.is_yearly = 1 /\ f.span_days >= 300 /\ f.count >= 1
       \/ /\ 1 \in {f.is_weekly, f.is_biweekly, f.is_monthly}
          /\ f.count >= 2
          /\ CvAtMost035(f.cv)

\* C14: the weak label of a feature vector is 1 exactly when its mean amount is
\* within [1, 300], it has a brand hit or a hint word, its key holds no word of
\* the recurring-but-not-subscription list, and it is yearly with a span of at
\* least 300 days and a count of at least 1, or weekly, biweekly or monthly with
\* a count of at least 2 and a coefficient of variation of at most 0.35; the
\* label is 0 otherwise.
C14_WeakLabelIff ==
    pc = "applied" =>
        /\ Len(res) = Len(arg)
        /\ \A r \in 1..Len(arg) :
              /\ res[r] \in {0, 1}
              /\ res[r] = 1 <=> C14Label(arg[r])

\* a monthly vector labelled 1 with its coefficient of variation exactly 0.35
C14_Witness ==
    /\ pc = "applied"
    /\ res = <<1>>
    /\ arg[1].is_monthly = 1
    /\ arg[1].cv = <<49, 400>>
    /\ arg[1].mean_amt = <<300, 1>>

\* the batch of one charge of 60.00 described as "Costco Membership"
SingleCostcoCharge ==
    /\ Len(tx) = 1
    /\ tx[1].description = <<"C","o","s","t","c","o"," ","M","e","m","b","e","r","s","h","i","p">>
    /\ tx[1].amount = -60

\* C15: a group of one yearly charge of 60.00 described as "Costco Membership"
\* gets the weak label 1, while the heuristic classifier does not report it as
\* recurring.
C15_SingleYearlyChargeAccepted ==
    (Prepared /\ SingleCostcoCharge) =>
        /\ labels = <<1>>
        /\ \A k \in 1..Len(detect_recurring_subscriptions(tx)) :
              ~detect_recurring_subscriptions(tx)[k].is_recurring

(***************************************************************************)
(* C16: the cadence label of the feature extractor for a median gap g is   *)
(* weekly iff |g-7| <= 1, biweekly iff |g-14| <= 2, monthly iff            *)
(* |g-30| <= 3 or 28 <= g <= 31, quarterly iff |g-90| <= 7, yearly iff     *)
(* |g-365| <= 15, none otherwise; the windows are disjoint, so at most one *)
(* of the five one-hot flags is 1 and each flag is 1 exactly for its       *)
(* label; a median gap of 0 (a single transaction) has cadence none.       *)
(* The gap g is arg[1] / 2, so every bound is stated on arg[1] doubled.    *)
(***************************************************************************)
C16Windows(h) ==
    [weekly |-> 12 <= h /\ h <= 16,
     biweekly |-> 24 <= h /\ h <= 32,
     monthly |-> (54 <= h /\ h <= 66) \/ (56 <= h /\ h <= 62),
     quarterly |-> 166 <= h /\ h <= 194,
     yearly |-> 700 <= h /\ h <= 760]

C16FlagSum(f) == f.is_weekly + f.is_biweekly + f.is_monthly + f.is_quarterly + f.is_yearly

C16_CadenceWindows ==
    pc = "applied" =>
        LET w == C16Windows(arg[1])
        IN  /\ (res.label = "weekly" <=> w.weekly)
            /\ (res.label = "biweekly" <=> w.biweekly)
            /\ (res.label = "monthly" <=> w.monthly)
            /\ (res.label = "quarterly" <=> w.quarterly)
            /\ (res.label = "yearly" <=> w.yearly)
            /\ (res.label = NoValue <=>
                    ~(w.weekly \/ w.biweekly \/ w.monthly \/ w.quarterly \/ w.yearly))
            /\ Cardinality({c \in DOMAIN w : w[c]}) <= 1
            /\ C16FlagSum(res.flags) <= 1
            /\ (res.flags.is_weekly = 1 <=> res.label = "weekly")
            /\ (res.flags.is_biweekly = 1 <=> res.label = "biweekly")
            /\ (res.flags.is_monthly = 1 <=> res.label = "monthly")
            /\ (res.flags.is_quarterly = 1 <=> res.label = "quarterly")
            /\ (res.flags.is_yearly = 1 <=> res.label = "yearly")
            /\ (arg[1] = 0 => res.label = NoValue /\ C16FlagSum(res.flags) = 0)

\* a median gap of 380 days, inside the yearly window of the feature extractor only
C16_Witness ==
    /\ pc = "applied"
    /\ arg = <<760, 2>>
    /\ res.label = "yearly"
    /\ res.flags.is_yearly = 1

(***************************************************************************)
(* C17: in a merchant group of fewer than 6 transactions a transaction is  *)
(* flagged iff |z| >= 3 for z = (|amount| - mean) / sd over the absolute    *)
(* amounts of the group.  As stated, sd is the population standard         *)
(* deviation with a floor of 1.0 and is never below 1.0: that statement is *)
(* C17_SdFlooredAtOne, and two amounts 10 and 11 give the divisor 0.5.     *)
(* What holds is C17_ZScoreRule: sd is the population standard deviation,  *)
(* replaced by 1.0 only when it is 0, so it is never 0 but can lie between *)
(* 0 and 1; the flags are a function of the amounts of the group.          *)
(***************************************************************************)
AmountsOfKey(key) == AbsAmounts(SelectSeq(tx, LAMBDA r : r.merchant_norm = key))

SmallGroups == {g \in 1..Len(anom.groups) : anom.groups[g].n < 6}

\* |x - mean| >= 3 * sd, for sd the square root of the fraction sd2
AtLeastThreeSd(a, x, sd2) ==
    (Len(a) * x - SumSeq(a)) * (Len(a) * x - SumSeq(a)) * sd2[2]
        >= 9 * Len(a) * Len(a) * sd2[1]

PopulationVariance(a) == <<Len(a) * SumOfSquares(a) - SumSeq(a) * SumSeq(a), Len(a) * Len(a)>>

\* max(sd, 1.0), squared
FlooredVariance(a) ==
    IF PopulationVariance(a)[1] >= PopulationVariance(a)[2]
    THEN PopulationVariance(a) ELSE <<1, 1>>

\* sd, or 1.0 when sd is 0, squared
NonZeroVariance(a) ==
    IF PopulationVariance(a)[1] > 0 THEN PopulationVariance(a) ELSE <<1, 1>>

C17FlagsFollow(grp, sd2) ==
    \A k \in 1..Len(anom.rows) :
        anom.rows[k].merchant_norm = grp.key =>
            (anom.rows[k].amount_anomaly = 1
                <=> AtLeastThreeSd(AmountsOfKey(grp.key), Abs(anom.rows[k].amount), sd2))

C17_SdFlooredAtOne ==
    pc = "flagged" =>
        \A g \in SmallGroups :
            /\ anom.groups[g].sd[1] >= anom.groups[g].sd[2]
            /\ anom.groups[g].sd[1] * FlooredVariance(AmountsOfKey(anom.groups[g].key))[2]
                  = FlooredVariance(AmountsOfKey(anom.groups[g].key))[1] * anom.groups[g].sd[2]
            /\ C17FlagsFollow(anom.groups[g], FlooredVariance(AmountsOfKey(anom.groups[g].key)))

C17_ZScoreRule ==
    pc = "flagged" =>
        \A g \in SmallGroups :
            /\ anom.groups[g].method = "zscore"
            /\ anom.groups[g].sd[1] > 0
            /\ anom.groups[g].sd[1] * NonZeroVariance(AmountsOfKey(anom.groups[g].key))[2]
                  = NonZeroVariance(AmountsOfKey(anom.groups[g].key))[1] * anom.groups[g].sd[2]
            /\ C17FlagsFollow(anom.groups[g], NonZeroVariance(AmountsOfKey(anom.groups[g].key)))

\* a group of the amounts 10 and 11 only, whose sd is below 1, and one of equal
\* amounts, whose sd is 0, in the same batch
C17_Witness ==
    /\ pc = "flagged"
    /\ \E g \in SmallGroups :
          /\ anom.groups[g].n >= 2
          /\ anom.groups[g].sd[1] < anom.groups[g].sd[2]
    /\ \E g \in SmallGroups :
          /\ anom.groups[g].n >= 2
          /\ PopulationVariance(AmountsOfKey(anom.groups[g].key))[1] = 0
          /\ anom.groups[g].sd = <<1, 1>>

(***************************************************************************)
(* C18: on an empty batch no operation raises and every derived structure  *)
(* is the well-typed empty case; in particular weak_label applied to the   *)
(* feature table of an empty batch returns an empty result.  The feature   *)
(* table of an empty batch is pd.DataFrame([]), which has no column, and   *)
(* weak_label raises KeyError on its first column access.                  *)
(***************************************************************************)
EmptyBatchPrepared == pc # "parsed" /\ Len(tx) = 0

C18_EmptyBatchWellTyped ==
    EmptyBatchPrepared =>
        /\ pc # "train_key_error"
        /\ feat = <<>>
        /\ labels = <<>>

(***************************************************************************)
(* C19: degenerate groups resolve to fixed values and nothing is divided   *)
(* by zero.  A group whose absolute amounts are all 0 gets CV = 999 in the *)
(* feature table and in the candidate table, is never is_recurring and is  *)
(* never weak-labelled 1; a group of one transaction gets median gap 0,    *)
(* gap deviation 0 and span 0; a group of equal non-zero amounts gets      *)
(* CV = 0.  Every fraction of a feature row has a non-zero denominator.    *)
(***************************************************************************)
Labelled == pc \in {"train_single_class", "train_checked", "train_fitted",
                    "train_fit_failed", "rf_written", "xgb_written", "trained",
                    "cli_single_class", "cli_checked", "cli_fitted", "cli_fit_failed",
                    "cli_rf_evaluated", "cli_saving", "cli_rf_saved", "cli_xgb_saved",
                    "cli_done"}

ZeroMean(a) == \A k \in 1..Len(a) : a[k] = 0

EqualNonZero(a) == (\A k \in 1..Len(a) : a[k] = a[1]) /\ a[1] # 0

IsSentinel(cv2) == cv2[1] = 999 * 999 * cv2[2]

C19Candidates(key) ==
    SelectSeq(detect_recurring_subscriptions(tx), LAMBDA c : c.merchant_norm = key)

C19Row(k) ==
    LET f == feat[k]
        a == AmountsOfKey(f.merchant_norm)
    IN  /\ f.mean_amt[2] > 0 /\ f.cv[2] > 0 /\ f.med_gap[2] > 0 /\ f.gap_std[2] > 0
        /\ ZeroMean(a) =>
              /\ IsSentinel(f.cv)
              /\ labels[k] = 0
              /\ \A c \in 1..Len(C19Candidates(f.merchant_norm)) :
                    /\ C19Candidates(f.merchant_norm)[c].cv = 1000 * CV_SENTINEL
                    /\ ~C19Candidates(f.merchant_norm)[c].is_recurring
        /\ Len(a) = 1 =>
              /\ f.med_gap[1] = 0
              /\ f.gap_std[1] = 0
              /\ f.span_days = 0
        /\ EqualNonZero(a) => f.cv[1] = 0

C19_DegenerateGroups ==
    Labelled => \A k \in 1..Len(feat) : C19Row(k)

\* one batch with a single charge of 0 and a second merchant charged the same
\* non-zero amount twice
C19_Witness ==
    /\ Labelled
    /\ \E k \in 1..Len(feat) :
          /\ feat[k].count = 1
          /\ ZeroMean(AmountsOfKey(feat[k].merchant_norm))
          /\ IsSentinel(feat[k].cv)
          /\ Len(C19Candidates(feat[k].merchant_norm)) = 1
    /\ \E k \in 1..Len(feat) :
          /\ feat[k].count = 2
          /\ EqualNonZero(AmountsOfKey(feat[k].merchant_norm))
          /\ feat[k].cv[1] = 0

(***************************************************************************)
(* C20: for every description, None and the empty string included, the     *)
(* result of normalize_merchant has at most 80 characters, consists of     *)
(* lowercase letters separated by single spaces, has no whitespace at      *)
(* either end, and has no token of the stop-word set, also when the cut at *)
(* 80 characters falls inside a token.  The stop words are removed before  *)
(* the cut, and the cut can leave the head of a longer word: "company"     *)
(* cut after two letters is the stop word "co".                            *)
(***************************************************************************)
LettersAndSingleSpaces(s) ==
    /\ \A k \in 1..Len(s) : s[k] \in LowerSet \/ s[k] = " "
    /\ \A k \in 1..(Len(s) - 1) : ~(s[k] = " " /\ s[k + 1] = " ")
    /\ s # <<>> => s[1] # " " /\ s[Len(s)] # " "

NoStopwordToken(s) == \A k \in 1..Len(Split(s)) : Split(s)[k] \notin STOPWORDS

C20_NormalizedKeyClean ==
    pc = "applied" =>
        /\ Len(res) <= 80
        /\ LettersAndSingleSpaces(res)
        /\ NoStopwordToken(res)

(***************************************************************************)
(* C21: apply_brand_lexicon gives a transaction the name and category of   *)
(* the first rule, in the order of BRAND_RULES, whose pattern matches its  *)
(* raw description without regard to case; a later matching rule never    *)
(* overrides it; a description that matches no rule gets brand None,       *)
(* category None and brand_hit 0; brand_hit is 1 exactly when brand is not *)
(* None.                                                                   *)
(***************************************************************************)
MatchingRules(desc) ==
    {r \in 1..Len(BRAND_RULES) : RuleMatches(BRAND_RULES[r], Lower(AsStr(desc)))}

C21_FirstMatchingRuleWins ==
    pc = "applied" =>
        /\ Len(res) = 1
        /\ (res[1].brand_hit = 1 <=> res[1].brand # NoValue)
        /\ res[1].brand_hit \in {0, 1}
        /\ MatchingRules(arg) = {} =>
              res[1].brand = NoValue /\ res[1].category = NoValue /\ res[1].brand_hit = 0
        /\ \A r \in MatchingRules(arg) :
              (\A q \in MatchingRules(arg) : r <= q) =>
                  /\ res[1].brand = BRAND_RULES[r].name
                  /\ res[1].category = BRAND_RULES[r].category

\* "SPOTIFY*Netflix": spotify stands first in the text, netflix first in the rules
C21_Witness ==
    /\ pc = "applied"
    /\ arg = <<"S","P","O","T","I","F","Y","*","N","e","t","f","l","i","x">>
    /\ MatchingRules(arg) = {1, 12}
    /\ res[1].brand = "netflix"
    /\ res[1].brand_hit = 1

(***************************************************************************)
(* C22: every candidate has next_expected = last_date + cadence_days, with *)
(* 7 days for weekly, 14 for biweekly, 30 for monthly, 90 for quarterly    *)
(* and 365 for yearly, and a group whose cadence is none gets no           *)
(* next_expected derived from one of these five periods.  The code starts  *)
(* from days = 30 and leaves it for a cadence of none, so such a group is  *)
(* given the monthly date.                                                 *)
(***************************************************************************)
C22Days == [weekly |-> 7, biweekly |-> 14, monthly |-> 30, quarterly |-> 90, yearly |-> 365]

C22Row(r) ==
    /\ r.cadence \in DOMAIN C22Days => r.next_expected = r.last_date + C22Days[r.cadence]
    /\ r.cadence = NoValue =>
          \A c \in DOMAIN C22Days : r.next_expected # r.last_date + C22Days[c]

C22_NextExpected ==
    Detected => \A k \in 1..Len(subs) : C22Row(subs[k])

(***************************************************************************)
(* C23: the candidate table is ordered by is_subscription, then count,     *)
(* then mean absolute amount, each descending: of two consecutive rows the *)
(* earlier has the greater or equal key, and rows of equal keys keep the   *)
(* order in which they were appended, which is the order of their merchant *)
(* keys under groupby.  The table is a function of the batch.              *)
(***************************************************************************)
RankKey(r) == << IF r.is_subscription THEN 1 ELSE 0, r.count, r.mean_amt >>

KeyGreater(a, b) ==
    \/ a[1] > b[1]
    \/ a[1] = b[1] /\ a[2] > b[2]
    \/ a[1] = b[1] /\ a[2] = b[2] /\ a[3] > b[3]

C23Pair(a, b) ==
    /\ ~KeyGreater(RankKey(b), RankKey(a))
    /\ RankKey(a) = RankKey(b) => TextLess(a.merchant_norm, b.merchant_norm)

C23_RankedStably ==
    pc = "detected" =>
        /\ \A k \in 1..(Len(subs) - 1) : C23Pair(subs[k], subs[k + 1])
        /\ Len(subs) = Cardinality({tx[k].merchant_norm : k \in 1..Len(tx)})

\* three candidates: a subscription of small amounts before a group charged more
\* and as often that is none, and two rows of equal keys among them
C23_Witness ==
    /\ pc = "detected"
    /\ Len(subs) = 3
    /\ \E k \in 1..2 :
          /\ subs[k].is_subscription /\ ~subs[k + 1].is_subscription
          /\ subs[k].count <= subs[k + 1].count
          /\ subs[k].mean_amt < subs[k + 1].mean_amt
    /\ \E k \in 1..2 : RankKey(subs[k]) = RankKey(subs[k + 1])

(***************************************************************************)
(* C24: the results of one merchant group do not depend on the other       *)
(* groups.  With the keys fixed, the feature row, the candidate row        *)
(* (cadence, next_expected, is_recurring, is_subscription) and the anomaly *)
(* flags of a group are those of the batch that holds this group alone,    *)
(* whatever the other groups hold and wherever the group stands among      *)
(* them.                                                                   *)
(***************************************************************************)
OnlyKey(key) == SelectSeq(tx, LAMBDA r : r.merchant_norm = key)

AnomalyRowsOf(table, key) == SelectSeq(table.rows, LAMBDA r : r.merchant_norm = key)

\* the anomaly flags of the group of a key are those of the batch that holds the
\* group alone: the forest is asked about the amounts of the group and nothing
\* else, and the z-score is taken over them
C24Flags(key) ==
    /\ Len(OnlyKey(key)) >= FOREST_MIN => AbsAmounts(OnlyKey(key)) \in DOMAIN anom.forest
    /\ AnomalyRowsOf(anom, key) = flag_amount_anomalies(OnlyKey(key), anom.forest).rows

\* the columns the forests of a run were asked about are the amounts of its
\* groups of FOREST_MIN or more rows
C24Columns ==
    DOMAIN anom.forest
        = {AbsAmounts(OnlyKey(tx[k].merchant_norm)) :
              k \in {n \in 1..Len(tx) : Len(OnlyKey(tx[n].merchant_norm)) >= FOREST_MIN}}

C24_GroupsIndependent ==
    /\ pc = "features" =>
          \A k \in 1..Len(feat) :
              <<feat[k]>> = build_feature_table(OnlyKey(feat[k].merchant_norm))
    /\ pc = "detected" =>
          \A k \in 1..Len(subs) :
              <<subs[k]>> = detect_recurring_subscriptions(OnlyKey(subs[k].merchant_norm))
    /\ pc = "flagged" =>
          /\ C24Columns
          /\ \A k \in 1..Len(tx) : C24Flags(tx[k].merchant_norm)

\* three groups of different amounts
C24FullBatch ==
    /\ Cardinality({tx[k].merchant_norm : k \in 1..Len(tx)}) = 3
    /\ \E a, b \in 1..Len(tx) : Abs(tx[a].amount) # Abs(tx[b].amount)

\* the rows of a key that the anomaly flagger flagged, and those it did not
C24Flagged(key, flag) ==
    {k \in 1..Len(anom.rows) :
        anom.rows[k].merchant_norm = key /\ anom.rows[k].amount_anomaly = flag}

\* a flagged batch of three groups: one of them went to the forest, which flagged
\* some of its rows and not the others, next to a group scored by z-score; of
\* the same batch the feature table has three rows, and the candidates hold a
\* subscription and a group that is not recurring
C24_Witness ==
    /\ pc = "flagged"
    /\ C24FullBatch
    /\ \E g \in 1..Len(anom.groups) :
          /\ anom.groups[g].method = "IsolationForest"
          /\ C24Flagged(anom.groups[g].key, 1) # {}
          /\ C24Flagged(anom.groups[g].key, 0) # {}
    /\ \E g \in 1..Len(anom.groups) :
          /\ anom.groups[g].method = "zscore"
          /\ anom.groups[g].n > 1
    /\ Len(build_feature_table(tx)) = 3
    /\ \E k \in 1..3 : detect_recurring_subscriptions(tx)[k].is_subscription
    /\ \E k \in 1..3 : ~detect_recurring_subscriptions(tx)[k].is_recurring

(***************************************************************************)
(* C25: a line whose date or amount cannot be parsed is dropped alone:     *)
(* every other line, one with a date that parses and a money-looking       *)
(* amount, gives exactly one transaction, and the batch is never rejected. *)
(* The parser also skips a line that holds a header word such as "total"   *)
(* or "page" anywhere, and a line whose amount is above 1,000,000, though  *)
(* its date and its amount parse.                                          *)
(***************************************************************************)
DateTextOf(ln, dm) == IF dm = <<>> THEN <<>> ELSE Slice(ln, dm[1], dm[2])

HasParsableDate(ln) ==
    DATE_PAT_search(ln) # <<>> /\ dtparse(DateTextOf(ln, DATE_PAT_search(ln)), today) # <<>>

HasMoneyAmount(ln) == MoneyMatches(ln) # <<>>

C25Lines == splitlines(OrEmpty(arg))

WellFormedLines ==
    {k \in 1..Len(C25Lines) :
        HasParsableDate(Strip(C25Lines[k])) /\ HasMoneyAmount(Strip(C25Lines[k]))}

C25_OnlyMalformedDropped ==
    pc = "applied" => Len(res) = Cardinality(WellFormedLines)

(***************************************************************************)
(* C26: the cadence label of the feature extractor and the cadence label   *)
(* of the heuristic classifier agree for every median gap; no median gap   *)
(* is yearly for the one and none for the other.  The yearly window of     *)
(* the feature extractor is 365 +- 15 days and that of the classifier      *)
(* 365 +- 10 days, so a median gap of 350 to 354.5 or of 375.5 to 380 days *)
(* is yearly for the first and none for the second.                        *)
(***************************************************************************)
C26_CadenceLabelsAgree ==
    pc = "applied" => res.label = recurring_cadence_label(arg)

(***************************************************************************)
(* C27: the z-score branch of flag_amount_anomalies can flag an outlier:   *)
(* it is not the case that every group of fewer than 6 transactions has    *)
(* all its flags 0.  Among n values none is more than sqrt(n - 1)          *)
(* population standard deviations from the mean, which is at most 2 for    *)
(* n <= 5, and where the deviation is 0 every value is the mean: the       *)
(* test |z| >= 3 never holds in such a group.  C27_ZScoreCanFlag states    *)
(* the claim over the groups of up to 5 amounts drawn from a few values;   *)
(* C27_ZScoreNeverFlags is the invariant that the claim denies.            *)
(***************************************************************************)
FlagsOfGroup(g) ==
    {anom.rows[k].amount_anomaly :
        k \in {q \in 1..Len(anom.rows) : anom.rows[q].merchant_norm = anom.groups[g].key}}

\* the amounts of a group of fewer than 6 transactions, over a few round values
C27Amounts == {0, 1, 10, 11, 40, 1000}

C27Groups == UNION {[1..n -> C27Amounts] : n \in 1..(FOREST_MIN - 1)}

C27_ZScoreCanFlag ==
    pc = "flagged" => \E a \in C27Groups : \E k \in 1..Len(a) : ZFlag(a, a[k]) = 1

\* the same on the batches of the model
C27_ZScoreNeverFlags ==
    pc = "flagged" => \A g \in SmallGroups : FlagsOfGroup(g) \subseteq {0}

\* five transactions of one merchant, four of 10 and one of 40: the largest z-score
\* a group of fewer than 6 can hold, and no flag
C27_Witness ==
    /\ pc = "flagged"
    /\ \E g \in SmallGroups :
          /\ anom.groups[g].n = 5
          /\ anom.groups[g].method = "zscore"
          /\ Cardinality({k \in 1..Len(tx) :
                            tx[k].merchant_norm = anom.groups[g].key
                            /\ Abs(tx[k].amount) = 40}) = 1
          /\ Cardinality({k \in 1..Len(tx) :
                            tx[k].merchant_norm = anom.groups[g].key
                            /\ Abs(tx[k].amount) = 10}) = 4
          /\ FlagsOfGroup(g) = {0}

(***************************************************************************)
(* C28: for the feature rows that group_features produces, a weak label of *)
(* 1 implies count >= 2.  A group of one transaction has median gap 0, no  *)
(* cadence flag and span_days 0, so neither the yearly rule nor the rule   *)
(* for the weekly, biweekly and monthly cadences accepts it.               *)
(***************************************************************************)
C28Row(k) ==
    /\ labels[k] = 1 => feat[k].count >= 2
    /\ feat[k].count = 1 =>
          /\ feat[k].med_gap[1] = 0
          /\ feat[k].span_days = 0
          /\ C16FlagSum(feat[k]) = 0
          /\ labels[k] = 0

C28_LabelNeedsTwoCharges ==
    Labelled => (Len(labels) = Len(feat) /\ \A k \in 1..Len(feat) : C28Row(k))

\* a batch with a group labelled 1 and a group of one charge with a hint word or a
\* brand, which has the evidence and the amount for the label but not the cadence
C28_Witness ==
    /\ Labelled
    /\ \E k \in 1..Len(feat) : labels[k] = 1 /\ feat[k].count = 2
    /\ \E k \in 1..Len(feat) :
          /\ feat[k].count = 1
          /\ positive(feat[k]) /\ reasonable_amt(feat[k]) /\ not_retailish(feat[k])
          /\ labels[k] = 0

(***************************************************************************)
(* The shape of the mapping soft_group builds, at every step of its loops. *)
(***************************************************************************)
\* the position of a key in the list of distinct keys, which is first-seen order
UniqIndex(key) == CHOOSE p \in 1..Len(uniq) : uniq[p] = key

\* the keys that are their own representative
Representatives(map) == {k \in DOMAIN map : map[k] = k}

C29Shape ==
    /\ DOMAIN mapping \subseteq RangeOf(uniq)
    /\ \A k \in DOMAIN mapping :
          /\ mapping[k] \in Representatives(mapping)
          /\ mapping[k] # k =>
                /\ UniqIndex(mapping[k]) < UniqIndex(k)
                /\ Similar(mapping[k], k, threshold)

\* an assignment made is kept by every later step
C29Kept ==
    \A k \in DOMAIN mapping : k \in DOMAIN mapping' /\ mapping'[k] = mapping[k]

\* C29: the mapping of soft_group is idempotent and chain-free: every value is a
\* representative that maps to itself, a key once assigned is never reassigned,
\* every representative comes before the keys mapped to it in first-seen order,
\* and a key mapped to a representative is itself similar to that representative.
C29_MappingChainFree == [](C29Shape) /\ [][C29Kept]_vars

\* the loops are over with a key mapped to an earlier representative while a
\* later key stayed apart as a representative of its own
C29_Witness ==
    /\ pc = "grouped"
    /\ \E k \in DOMAIN mapping : mapping[k] # k
    /\ Cardinality(Representatives(mapping)) >= 2

\* the model file of the scorer a run used
UsedFileExists(a) ==
    \/ a.used_mode = "xgboost" /\ a.xgb_exists
    \/ a.used_mode = "random_forest" /\ a.rf_exists

\* no other session wrote into the directory during the run, joblib.load returns
\* a model from every model file that exists, and score() did not raise
LibrariesWork ==
    /\ ~app.disturbed
    /\ app.rf_exists => app.rf_loads
    /\ app.xgb_exists => app.xgb_loads
    /\ app.raised # "ScoreError"

\* C30: in a dashboard run whose engine is not "Heuristic only", with readable
\* metadata and at least one of the two model files, the model scores the batch
\* and the scorer used is one whose file exists: XGBoost when only
\* xgb_subscription.pkl exists, RandomForest when only rf_subscription.pkl
\* exists; the other file missing does not make the run fall back to heuristics.
C30_ExistingModelUsed ==
    (pc = "shown" /\ TriesModel(app) /\ app.meta = FEATURES /\ LibrariesWork) =>
        /\ app.subs_ml.present
        /\ app.main_subs.source = "ml"
        /\ UsedFileExists(app)
        /\ (app.xgb_exists /\ ~app.rf_exists) => app.used_mode = "xgboost"
        /\ (app.rf_exists /\ ~app.xgb_exists) => app.used_mode = "random_forest"
====
